---- MODULE Spec2Model ----
(***************************************************************************)
(* TEI management engine of mISDN (drivers/isdn/mISDN/tei.c).              *)
(*                                                                         *)
(* One mISDNmanager with its list of layer2 entities, each owning a teimgr *)
(* (the TEI state machine), and the manager's send queue towards the       *)
(* physical channel.  Every handler of tei.c is an operator from a state   *)
(* record to the SET of state records the handler can end in: the random   *)
(* reference value (random_ri) and the result of the hand-off to the lower *)
(* channel (mgr->ch.recv) are the handler's nondeterminism.                *)
(*                                                                         *)
(* Environment assumptions: buffer allocation (_alloc_mISDN_skb, kzalloc)  *)
(* succeeds; all entry points of one manager are serialized.               *)
(***************************************************************************)
EXTENDS Integers, Sequences, FiniteSets, TLC

VARIABLES
    optNet,     \* MGR_OPT_NETWORK bit of mgr->options
    optUser,    \* MGR_OPT_USER bit of mgr->options
    layer2,     \* mgr->layer2: the list of entities, each with its teimgr
    active,     \* MGR_PH_ACTIVE bit of mgr->options
    notready,   \* MGR_PH_NOTREADY bit of mgr->options
    lastid,     \* mgr->lastid
    sendq,      \* mgr->sendq
    nextid,     \* mgr->nextid
    inflight,   \* ids accepted by the lower channel and not yet confirmed
    orphan,     \* a teimgr was freed with its timer still pending
    probe       \* the value under test when a function is exercised alone

vars == <<optNet, optUser, layer2, active, notready, lastid, sendq, nextid,
          inflight, orphan, probe>>

----------------------------------------------------------------------------
(* Bounds of the model *)

MaxWork == 6

\* the same budget for the specification with fair timers, which also
\* counts the ids the running episodes can still ask for
LiveWork == 6

(* Values drawn for the inputs *)

RiVals == {0, 257}
TeiVals == {0, 5, 70, 127}
CreateTeiVals == {0, 5, 70, 127, 128}
SapiVals == {0, 16}
Payloads == {<<0>>}

----------------------------------------------------------------------------
(* Constants of the program *)

ID_REQUEST == 1
ID_ASSIGNED == 2
ID_DENIED == 3
ID_CHK_REQ == 4
ID_CHK_RES == 5
ID_REMOVE == 6
ID_VERIFY == 7

TEI_ENTITY_ID == 15

ST_TEI_NOP == 0
ST_TEI_IDREQ == 1
ST_TEI_IDVERIFY == 2

GROUP_TEI == 127
TEI_SAPI == 63
UI == 3
MISDN_ID_NONE == 65534
IdWrap == 32767

ISDN_P_LAPD_TE == "ISDN_P_LAPD_TE"
ISDN_P_LAPD_NT == "ISDN_P_LAPD_NT"
Protocols == {ISDN_P_LAPD_TE, ISDN_P_LAPD_NT}

T201 == 1000
T202 == 2000

----------------------------------------------------------------------------
(* The state record the handlers work on.  Besides the program's state it
   collects what one call gives out: enq, the frames the call appended to
   sendq; handed, the hand-offs to mgr->ch.recv it attempted; notes, the
   tei_l2 notifications it raised; actreq, the PH_ACTIVATE_REQ it queued. *)

Cur ==
    [layer2 |-> layer2, active |-> active, notready |-> notready,
     lastid |-> lastid, sendq |-> sendq, nextid |-> nextid,
     enq |-> <<>>, handed |-> <<>>, notes |-> <<>>, actreq |-> 0,
     inflight |-> inflight, orphan |-> orphan]

Commit(s) ==
    /\ layer2' = s.layer2
    /\ active' = s.active
    /\ notready' = s.notready
    /\ lastid' = s.lastid
    /\ sendq' = s.sendq
    /\ nextid' = s.nextid
    /\ inflight' = s.inflight
    /\ orphan' = s.orphan
    /\ UNCHANGED <<optNet, optUser, probe>>

RemoveAt(q, i) == [k \in 1 .. Len(q) - 1 |-> IF k < i THEN q[k] ELSE q[k + 1]]

----------------------------------------------------------------------------
(* Outbound queue and flow control *)

\* mutant of new_id: the counter wraps when it reaches 0x7fff, so that
\* 0x7fff is never held between two calls
new_id_WrapEarly(s) ==
    LET id == s.nextid
    IN  [id |-> id * 65536 + GROUP_TEI * 256 + TEI_SAPI,
         s |-> [s EXCEPT !.nextid = IF id + 1 = IdWrap THEN 1 ELSE id + 1]]

new_id(s) ==
    LET id == s.nextid
    IN  [id |-> id * 65536 + GROUP_TEI * 256 + TEI_SAPI,
         s |-> [s EXCEPT !.nextid = IF id = IdWrap THEN 1 ELSE id + 1]]

\* mgr->ch.recv(mgr->ch.rst, skb): the lower channel takes the frame (ok)
\* or rejects it
recv(s, skb, ok) ==
    [s EXCEPT !.handed = Append(@, [id |-> skb.id, data |-> skb.data, ok |-> ok]),
              !.inflight = IF ok THEN @ \cup {skb.id} ELSE @]

\* mutant of do_send: a rejected frame is put back at the head of the queue
do_send_Requeue(s) ==
    IF ~s.active THEN {s}
    ELSE IF s.notready THEN {s}
    ELSE IF s.sendq = <<>> THEN {[s EXCEPT !.notready = FALSE]}
    ELSE LET skb == Head(s.sendq)
             s1 == [s EXCEPT !.notready = TRUE, !.sendq = Tail(@),
                             !.lastid = skb.id]
         IN  { recv(s1, skb, TRUE),
               [recv(s1, skb, FALSE) EXCEPT !.notready = FALSE,
                                            !.lastid = MISDN_ID_NONE,
                                            !.sendq = <<skb>> \o @] }

\* mutant of do_send: MGR_PH_NOTREADY is set but not tested
do_send_NoReadyTest(s) ==
    IF ~s.active THEN {s}
    ELSE IF s.sendq = <<>> THEN {[s EXCEPT !.notready = FALSE]}
    ELSE LET skb == Head(s.sendq)
             s1 == [s EXCEPT !.notready = TRUE, !.sendq = Tail(@),
                             !.lastid = skb.id]
         IN  { recv(s1, skb, TRUE),
               [recv(s1, skb, FALSE) EXCEPT !.notready = FALSE,
                                            !.lastid = MISDN_ID_NONE] }

\* mutant of do_send: a rejected hand-off leaves mgr->lastid set
do_send_KeepLastid(s) ==
    IF ~s.active THEN {s}
    ELSE IF s.notready THEN {s}
    ELSE IF s.sendq = <<>> THEN {[s EXCEPT !.notready = FALSE]}
    ELSE LET skb == Head(s.sendq)
             s1 == [s EXCEPT !.notready = TRUE, !.sendq = Tail(@),
                             !.lastid = skb.id]
         IN  { recv(s1, skb, TRUE),
               [recv(s1, skb, FALSE) EXCEPT !.notready = FALSE] }

do_send(s) ==
    IF ~s.active THEN {s}
    ELSE IF s.notready THEN {s}
    ELSE IF s.sendq = <<>> THEN {[s EXCEPT !.notready = FALSE]}
    ELSE LET skb == Head(s.sendq)
             s1 == [s EXCEPT !.notready = TRUE, !.sendq = Tail(@),
                             !.lastid = skb.id]
         IN  { recv(s1, skb, TRUE),
               [recv(s1, skb, FALSE) EXCEPT !.notready = FALSE,
                                            !.lastid = MISDN_ID_NONE] }

\* mutant of do_ack: MGR_PH_ACTIVE is not tested before the next hand-off
do_ack_SendsInactive(s, id) ==
    IF s.notready /\ id = s.lastid
    THEN LET done(t) == [t EXCEPT !.lastid = MISDN_ID_NONE,
                                  !.notready = FALSE]
         IN  IF s.sendq # <<>>
             THEN LET skb == Head(s.sendq)
                      s1 == [s EXCEPT !.sendq = Tail(@), !.lastid = skb.id]
                  IN  { recv(s1, skb, TRUE), done(recv(s1, skb, FALSE)) }
             ELSE {done(s)}
    ELSE {s}

\* mutant of do_ack: a matching confirm clears the flags and sends nothing
do_ack_NoChain(s, id) ==
    IF s.notready /\ id = s.lastid
    THEN {[s EXCEPT !.lastid = MISDN_ID_NONE, !.notready = FALSE]}
    ELSE {s}

\* mutant of do_ack: the confirm's id is not compared with mgr->lastid
do_ack_AnyId(s, id) ==
    IF s.notready
    THEN LET done(t) == [t EXCEPT !.lastid = MISDN_ID_NONE,
                                  !.notready = FALSE]
         IN  IF s.active /\ s.sendq # <<>>
             THEN LET skb == Head(s.sendq)
                      s1 == [s EXCEPT !.sendq = Tail(@), !.lastid = skb.id]
                  IN  { recv(s1, skb, TRUE), done(recv(s1, skb, FALSE)) }
             ELSE {done(s)}
    ELSE {s}

do_ack(s, id) ==
    IF s.notready /\ id = s.lastid
    THEN LET done(t) == [t EXCEPT !.lastid = MISDN_ID_NONE,
                                  !.notready = FALSE]
         IN  IF s.active /\ s.sendq # <<>>
             THEN LET skb == Head(s.sendq)
                      s1 == [s EXCEPT !.sendq = Tail(@), !.lastid = skb.id]
                  IN  { recv(s1, skb, TRUE), done(recv(s1, skb, FALSE)) }
             ELSE {done(s)}
    ELSE {s}

\* mutant of mgr_send_down: the frame is put at the head of the send queue
mgr_send_down_Front(s, skb) ==
    LET s1 == [s EXCEPT !.sendq = <<skb>> \o @, !.enq = Append(@, skb)]
    IN  IF ~s1.active
        THEN {[s1 EXCEPT !.actreq = @ + 1]}
        ELSE do_send(s1)

\* mutant of mgr_send_down: with the link inactive the frame is queued but
\* no PH_ACTIVATE_REQ is raised
mgr_send_down_NoActReq(s, skb) ==
    LET s1 == [s EXCEPT !.sendq = Append(@, skb), !.enq = Append(@, skb)]
    IN  IF ~s1.active
        THEN {s1}
        ELSE do_send(s1)

mgr_send_down(s, skb) ==
    LET s1 == [s EXCEPT !.sendq = Append(@, skb), !.enq = Append(@, skb)]
    IN  IF ~s1.active
        THEN {[s1 EXCEPT !.actreq = @ + 1]}
        ELSE do_send(s1)

\* mutant of dl_unit_data: the frame is put at the head of the send queue
dl_unit_data_Front(s, payload) ==
    IF ~optNet THEN [ret |-> "EINVAL", S |-> {s}]
    ELSE LET s0 == IF ~s.active THEN [s EXCEPT !.actreq = @ + 1] ELSE s
             r == new_id(s0)
             skb == [id |-> r.id, data |-> <<2, 255, UI>> \o payload]
             s1 == [r.s EXCEPT !.sendq = <<skb>> \o @, !.enq = Append(@, skb)]
         IN  [ret |-> "0", S |-> do_send(s1)]

dl_unit_data(s, payload) ==
    IF ~optNet THEN [ret |-> "EINVAL", S |-> {s}]
    ELSE LET s0 == IF ~s.active THEN [s EXCEPT !.actreq = @ + 1] ELSE s
             r == new_id(s0)
             skb == [id |-> r.id, data |-> <<2, 255, UI>> \o payload]
             s1 == [r.s EXCEPT !.sendq = Append(@, skb), !.enq = Append(@, skb)]
         IN  [ret |-> "0", S |-> do_send(s1)]

----------------------------------------------------------------------------
(* The state-machine and timer primitives, and the entity owner *)

Ent(s, i) == s.layer2[i]

\* exp and tx count the expiries and the frames of the running episode
mISDN_FsmChangeState(s, i, st) ==
    IF st = ST_TEI_NOP
    THEN [s EXCEPT !.layer2[i].state = st, !.layer2[i].exp = 0, !.layer2[i].tx = 0]
    ELSE [s EXCEPT !.layer2[i].state = st]

mISDN_FsmAddTimer(s, i) == [s EXCEPT !.layer2[i].timer = TRUE]

mISDN_FsmDelTimer(s, i) == [s EXCEPT !.layer2[i].timer = FALSE]

\* tei_l2(l2, cmd, arg): the notification to the owning layer 2, which
\* binds the TEI on MDL_ASSIGN_REQ and releases it on MDL_REMOVE_REQ
tei_l2(s, i, cmd, arg) ==
    LET s1 == [s EXCEPT !.notes = Append(@, [l2 |-> i, cmd |-> cmd, arg |-> arg])]
    IN  CASE cmd = "MDL_ASSIGN_REQ" -> [s1 EXCEPT !.layer2[i].tei = arg]
          [] cmd = "MDL_REMOVE_REQ" -> [s1 EXCEPT !.layer2[i].tei = GROUP_TEI]
          [] OTHER -> s1

----------------------------------------------------------------------------
(* Frame codec and registry lookup *)

\* mutant of findtei: the test l2->tei > 0 is left out
findtei_ZeroToo(s, tei) ==
    LET hit == {k \in 1 .. Len(s.layer2) :
                   /\ s.layer2[k].sapi = 0
                   /\ s.layer2[k].tei # GROUP_TEI
                   /\ s.layer2[k].tei = tei}
    IN  IF hit = {} THEN 0 ELSE CHOOSE k \in hit : \A j \in hit : k <= j

\* findtei: the first entity of the list that holds tei, 0 for NULL
findtei(s, tei) ==
    LET hit == {k \in 1 .. Len(s.layer2) :
                   /\ s.layer2[k].sapi = 0
                   /\ s.layer2[k].tei > 0
                   /\ s.layer2[k].tei # GROUP_TEI
                   /\ s.layer2[k].tei = tei}
    IN  IF hit = {} THEN 0 ELSE CHOOSE k \in hit : \A j \in hit : k <= j

\* the 8 octets put_tei_msg builds
\* mutant of put_tei_msg: the reference value is stored low octet first
TeiFrame_LowFirst(net, m_id, ri, tei) ==
    << TEI_SAPI * 4 + (IF net THEN 2 ELSE 0),
       GROUP_TEI * 2 + 1,
       UI,
       TEI_ENTITY_ID,
       ri % 256,
       (ri \div 256) % 256,
       m_id,
       (tei * 2 + 1) % 256 >>

TeiFrame(net, m_id, ri, tei) ==
    << TEI_SAPI * 4 + (IF net THEN 2 ELSE 0),
       GROUP_TEI * 2 + 1,
       UI,
       TEI_ENTITY_ID,
       (ri \div 256) % 256,
       ri % 256,
       m_id,
       (tei * 2 + 1) % 256 >>

put_tei_msg(s, i, m_id, ri, tei) ==
    LET bp == TeiFrame(Ent(s, i).net, m_id, ri, tei)
        r == new_id(s)
    IN  mgr_send_down(r.s, [id |-> r.id, data |-> bp])

\* the handlers read the reference value and the TEI from dp = &data[4]
DpRi(dp) == dp[1] * 256 + dp[2]
DpTei(dp) == dp[4] \div 2

----------------------------------------------------------------------------
(* The TEI state machine *)

RECURSIVE mISDN_FsmEvent(_, _, _, _)

\* mutant of tei_id_request: the assigned TEI is not tested
tei_id_request_NoTest(s, i) ==
    UNION {
      LET s1 == [s EXCEPT !.layer2[i].ri = r,
                          !.layer2[i].exp = 0, !.layer2[i].tx = 1]
      IN  { [mISDN_FsmAddTimer(mISDN_FsmChangeState(s2, i, ST_TEI_IDREQ), i)
                EXCEPT !.layer2[i].nval = 3]
            : s2 \in put_tei_msg(s1, i, ID_REQUEST, r, GROUP_TEI) }
      : r \in RiVals }

\* mutant of tei_id_request: the frame carries the reference value the
\* session held before, not the one just drawn
tei_id_request_StaleRi(s, i) ==
    IF Ent(s, i).tei # GROUP_TEI THEN {s}
    ELSE UNION {
           LET s1 == [s EXCEPT !.layer2[i].ri = r,
                               !.layer2[i].exp = 0, !.layer2[i].tx = 1]
           IN  { [mISDN_FsmAddTimer(mISDN_FsmChangeState(s2, i, ST_TEI_IDREQ), i)
                     EXCEPT !.layer2[i].nval = 3]
                 : s2 \in put_tei_msg(s1, i, ID_REQUEST, Ent(s, i).ri, GROUP_TEI) }
           : r \in RiVals }

tei_id_request(s, i) ==
    IF Ent(s, i).tei # GROUP_TEI THEN {s}
    ELSE UNION {
           LET s1 == [s EXCEPT !.layer2[i].ri = r,
                               !.layer2[i].exp = 0, !.layer2[i].tx = 1]
           IN  { [mISDN_FsmAddTimer(mISDN_FsmChangeState(s2, i, ST_TEI_IDREQ), i)
                     EXCEPT !.layer2[i].nval = 3]
                 : s2 \in put_tei_msg(s1, i, ID_REQUEST, r, GROUP_TEI) }
           : r \in RiVals }

\* mutant of tei_id_assign: findtei is not asked whether the TEI is in use
tei_id_assign_NoHolderTest(s, i, dp) ==
    LET ri == DpRi(dp)
        tei == DpTei(dp)
    IN  IF ri = Ent(s, i).ri
        THEN {tei_l2(mISDN_FsmChangeState(mISDN_FsmDelTimer(s, i), i, ST_TEI_NOP),
                     i, "MDL_ASSIGN_REQ", tei)}
        ELSE {s}

\* mutant of tei_id_assign: the holder of the TEI is made to verify
tei_id_assign_VerifyHolder(s, i, dp) ==
    LET ri == DpRi(dp)
        tei == DpTei(dp)
        l2 == findtei(s, tei)
    IN  IF l2 # 0
        THEN IF ri # Ent(s, l2).ri
             THEN mISDN_FsmEvent(s, l2, "EV_VERIFY", <<>>)
             ELSE {s}
        ELSE IF ri = Ent(s, i).ri
             THEN {tei_l2(mISDN_FsmChangeState(mISDN_FsmDelTimer(s, i), i, ST_TEI_NOP),
                          i, "MDL_ASSIGN_REQ", tei)}
             ELSE {s}

\* mutant of tei_id_assign: the reference value is not compared with tm->ri
tei_id_assign_AnyRi(s, i, dp) ==
    LET ri == DpRi(dp)
        tei == DpTei(dp)
        l2 == findtei(s, tei)
    IN  IF l2 # 0
        THEN IF ri # Ent(s, l2).ri
             THEN {tei_l2(s, l2, "MDL_ERROR_RSP", 0)}
             ELSE {s}
        ELSE {tei_l2(mISDN_FsmChangeState(mISDN_FsmDelTimer(s, i), i, ST_TEI_NOP),
                     i, "MDL_ASSIGN_REQ", tei)}

\* mutant of tei_id_assign: the timer is not deleted on completion
tei_id_assign_NoDelTimer(s, i, dp) ==
    LET ri == DpRi(dp)
        tei == DpTei(dp)
        l2 == findtei(s, tei)
    IN  IF l2 # 0
        THEN IF ri # Ent(s, l2).ri
             THEN {tei_l2(s, l2, "MDL_ERROR_RSP", 0)}
             ELSE {s}
        ELSE IF ri = Ent(s, i).ri
             THEN {tei_l2(mISDN_FsmChangeState(s, i, ST_TEI_NOP),
                          i, "MDL_ASSIGN_REQ", tei)}
             ELSE {s}

\* mutant of tei_id_assign: the owner is told the entity's old TEI, not the
\* frame's
tei_id_assign_OldTei(s, i, dp) ==
    LET ri == DpRi(dp)
        tei == DpTei(dp)
        l2 == findtei(s, tei)
    IN  IF l2 # 0
        THEN IF ri # Ent(s, l2).ri
             THEN {tei_l2(s, l2, "MDL_ERROR_RSP", 0)}
             ELSE {s}
        ELSE IF ri = Ent(s, i).ri
             THEN {tei_l2(mISDN_FsmChangeState(mISDN_FsmDelTimer(s, i), i, ST_TEI_NOP),
                          i, "MDL_ASSIGN_REQ", Ent(s, i).tei)}
             ELSE {s}

tei_id_assign(s, i, dp) ==
    LET ri == DpRi(dp)
        tei == DpTei(dp)
        l2 == findtei(s, tei)
    IN  IF l2 # 0
        THEN IF ri # Ent(s, l2).ri
             THEN {tei_l2(s, l2, "MDL_ERROR_RSP", 0)}
             ELSE {s}
        ELSE IF ri = Ent(s, i).ri
             THEN {tei_l2(mISDN_FsmChangeState(mISDN_FsmDelTimer(s, i), i, ST_TEI_NOP),
                          i, "MDL_ASSIGN_REQ", tei)}
             ELSE {s}

\* mutant of tei_id_test_dup: the holder is made to verify whatever state
\* its session is in
tei_id_test_dup_Direct(s, i, dp) ==
    LET ri == DpRi(dp)
        tei == DpTei(dp)
        l2 == findtei(s, tei)
    IN  IF l2 # 0 /\ ri # Ent(s, l2).ri
        THEN LET s1 == [s EXCEPT !.layer2[l2].exp = 0, !.layer2[l2].tx = 1]
             IN  { [mISDN_FsmAddTimer(mISDN_FsmChangeState(s2, l2, ST_TEI_IDVERIFY), l2)
                       EXCEPT !.layer2[l2].nval = 2]
                   : s2 \in put_tei_msg(s1, l2, ID_VERIFY, 0, Ent(s, l2).tei) }
        ELSE {s}

\* mutant of tei_id_test_dup: a holder with FLG_FIXED_TEI is left alone
tei_id_test_dup_SkipFixed(s, i, dp) ==
    LET ri == DpRi(dp)
        tei == DpTei(dp)
        l2 == findtei(s, tei)
    IN  IF l2 # 0 /\ ri # Ent(s, l2).ri /\ ~Ent(s, l2).fixed
        THEN mISDN_FsmEvent(s, l2, "EV_VERIFY", <<>>)
        ELSE {s}

\* mutant of tei_id_test_dup: EV_VERIFY goes to the receiving session, not
\* to the holder found
tei_id_test_dup_Self(s, i, dp) ==
    LET ri == DpRi(dp)
        tei == DpTei(dp)
        l2 == findtei(s, tei)
    IN  IF l2 # 0 /\ ri # Ent(s, l2).ri
        THEN mISDN_FsmEvent(s, i, "EV_VERIFY", <<>>)
        ELSE {s}

tei_id_test_dup(s, i, dp) ==
    LET ri == DpRi(dp)
        tei == DpTei(dp)
        l2 == findtei(s, tei)
    IN  IF l2 # 0 /\ ri # Ent(s, l2).ri
        THEN mISDN_FsmEvent(s, l2, "EV_VERIFY", <<>>)
        ELSE {s}

\* mutant of tei_id_denied: the denial ends the request like an exhausted
\* retry cycle
tei_id_denied_GiveUp(s, i, dp) ==
    {mISDN_FsmChangeState(tei_l2(mISDN_FsmDelTimer(s, i), i, "MDL_ERROR_RSP", 0),
                          i, ST_TEI_NOP)}

tei_id_denied(s, i, dp) == {s}

\* mutant of tei_id_chk_req: the answer carries the TEI of the request
tei_id_chk_req_FrameTei(s, i, dp) ==
    LET tei == DpTei(dp)
    IN  IF Ent(s, i).tei # GROUP_TEI /\ (tei = GROUP_TEI \/ tei = Ent(s, i).tei)
        THEN UNION { put_tei_msg(mISDN_FsmChangeState(mISDN_FsmDelTimer(s, i), i, ST_TEI_NOP),
                                 i, ID_CHK_RES, r, tei)
                     : r \in RiVals }
        ELSE {s}

tei_id_chk_req(s, i, dp) ==
    LET tei == DpTei(dp)
    IN  IF Ent(s, i).tei # GROUP_TEI /\ (tei = GROUP_TEI \/ tei = Ent(s, i).tei)
        THEN UNION { put_tei_msg(mISDN_FsmChangeState(mISDN_FsmDelTimer(s, i), i, ST_TEI_NOP),
                                 i, ID_CHK_RES, r, Ent(s, i).tei)
                     : r \in RiVals }
        ELSE {s}

\* mutant of tei_id_remove: the TEI of the frame is not compared
tei_id_remove_AnyTei(s, i, dp) ==
    IF Ent(s, i).tei # GROUP_TEI
    THEN {tei_l2(mISDN_FsmChangeState(mISDN_FsmDelTimer(s, i), i, ST_TEI_NOP),
                 i, "MDL_REMOVE_REQ", 0)}
    ELSE {s}

tei_id_remove(s, i, dp) ==
    LET tei == DpTei(dp)
    IN  IF Ent(s, i).tei # GROUP_TEI /\ (tei = GROUP_TEI \/ tei = Ent(s, i).tei)
        THEN {tei_l2(mISDN_FsmChangeState(mISDN_FsmDelTimer(s, i), i, ST_TEI_NOP),
                     i, "MDL_REMOVE_REQ", 0)}
        ELSE {s}

\* mutant of tei_id_verify: an entity without a TEI does not verify
tei_id_verify_OnlyAssigned(s, i) ==
    IF Ent(s, i).tei = GROUP_TEI THEN {s}
    ELSE LET s1 == [s EXCEPT !.layer2[i].exp = 0, !.layer2[i].tx = 1]
         IN  { [mISDN_FsmAddTimer(mISDN_FsmChangeState(s2, i, ST_TEI_IDVERIFY), i)
                   EXCEPT !.layer2[i].nval = 2]
               : s2 \in put_tei_msg(s1, i, ID_VERIFY, 0, Ent(s, i).tei) }

tei_id_verify(s, i) ==
    LET s1 == [s EXCEPT !.layer2[i].exp = 0, !.layer2[i].tx = 1]
    IN  { [mISDN_FsmAddTimer(mISDN_FsmChangeState(s2, i, ST_TEI_IDVERIFY), i)
              EXCEPT !.layer2[i].nval = 2]
          : s2 \in put_tei_msg(s1, i, ID_VERIFY, 0, Ent(s, i).tei) }

\* mutant of tei_id_req_tout: nval is tested before it is decremented
tei_id_req_tout_PostDec(s, i) ==
    LET s0 == [s EXCEPT !.layer2[i].nval = @ - 1]
    IN  IF Ent(s, i).nval # 0
        THEN UNION {
               LET s1 == [s0 EXCEPT !.layer2[i].ri = r, !.layer2[i].tx = @ + 1]
               IN  { mISDN_FsmAddTimer(s2, i)
                     : s2 \in put_tei_msg(s1, i, ID_REQUEST, r, GROUP_TEI) }
               : r \in RiVals }
        ELSE {mISDN_FsmChangeState(tei_l2(s0, i, "MDL_ERROR_RSP", 0), i, ST_TEI_NOP)}

tei_id_req_tout(s, i) ==
    LET s0 == [s EXCEPT !.layer2[i].nval = @ - 1]
    IN  IF Ent(s0, i).nval # 0
        THEN UNION {
               LET s1 == [s0 EXCEPT !.layer2[i].ri = r, !.layer2[i].tx = @ + 1]
               IN  { mISDN_FsmAddTimer(s2, i)
                     : s2 \in put_tei_msg(s1, i, ID_REQUEST, r, GROUP_TEI) }
               : r \in RiVals }
        ELSE {mISDN_FsmChangeState(tei_l2(s0, i, "MDL_ERROR_RSP", 0), i, ST_TEI_NOP)}

\* mutant of tei_id_ver_tout: the exhausted verification is reported like
\* a failed request, with MDL_ERROR_RSP
tei_id_ver_tout_ErrorRsp(s, i) ==
    LET s0 == [s EXCEPT !.layer2[i].nval = @ - 1]
    IN  IF Ent(s0, i).nval # 0
        THEN LET s1 == [s0 EXCEPT !.layer2[i].tx = @ + 1]
             IN  { mISDN_FsmAddTimer(s2, i)
                   : s2 \in put_tei_msg(s1, i, ID_VERIFY, 0, Ent(s0, i).tei) }
        ELSE {mISDN_FsmChangeState(tei_l2(s0, i, "MDL_ERROR_RSP", 0), i, ST_TEI_NOP)}

\* mutant of tei_id_ver_tout: nval is not decremented, the verification is
\* repeated without end
tei_id_ver_tout_NoDec(s, i) ==
    LET s1 == [s EXCEPT !.layer2[i].tx = @ + 1]
    IN  { mISDN_FsmAddTimer(s2, i)
          : s2 \in put_tei_msg(s1, i, ID_VERIFY, 0, Ent(s, i).tei) }

tei_id_ver_tout(s, i) ==
    LET s0 == [s EXCEPT !.layer2[i].nval = @ - 1]
    IN  IF Ent(s0, i).nval # 0
        THEN LET s1 == [s0 EXCEPT !.layer2[i].tx = @ + 1]
             IN  { mISDN_FsmAddTimer(s2, i)
                   : s2 \in put_tei_msg(s1, i, ID_VERIFY, 0, Ent(s0, i).tei) }
        ELSE {mISDN_FsmChangeState(tei_l2(s0, i, "MDL_REMOVE_REQ", 0), i, ST_TEI_NOP)}

tei_assign_req(s, i, dp) ==
    IF Ent(s, i).tei = GROUP_TEI THEN {s}
    ELSE LET s1 == [s EXCEPT !.layer2[i].ri = DpRi(dp)]
         IN  { mISDN_FsmChangeState(s2, i, ST_TEI_NOP)
               : s2 \in put_tei_msg(s1, i, ID_ASSIGNED, DpRi(dp), Ent(s, i).tei) }

\* mutant of TeiFnList: EV_VERIFY is also listed for ST_TEI_IDVERIFY
mISDN_FsmEvent_VerifyAgain(s, i, event, arg) ==
    LET st == Ent(s, i).state
    IN  CASE st = ST_TEI_NOP /\ event = "EV_IDREQ" -> tei_id_request(s, i)
          [] st = ST_TEI_NOP /\ event = "EV_ASSIGN" -> tei_id_test_dup(s, i, arg)
          [] st = ST_TEI_NOP /\ event = "EV_ASSIGN_REQ" -> tei_assign_req(s, i, arg)
          [] st = ST_TEI_NOP /\ event = "EV_VERIFY" -> tei_id_verify(s, i)
          [] st = ST_TEI_NOP /\ event = "EV_REMOVE" -> tei_id_remove(s, i, arg)
          [] st = ST_TEI_NOP /\ event = "EV_CHKREQ" -> tei_id_chk_req(s, i, arg)
          [] st = ST_TEI_IDREQ /\ event = "EV_TIMER" -> tei_id_req_tout(s, i)
          [] st = ST_TEI_IDREQ /\ event = "EV_ASSIGN" -> tei_id_assign(s, i, arg)
          [] st = ST_TEI_IDREQ /\ event = "EV_DENIED" -> tei_id_denied(s, i, arg)
          [] st = ST_TEI_IDVERIFY /\ event = "EV_TIMER" -> tei_id_ver_tout(s, i)
          [] st = ST_TEI_IDVERIFY /\ event = "EV_VERIFY" -> tei_id_verify(s, i)
          [] st = ST_TEI_IDVERIFY /\ event = "EV_REMOVE" -> tei_id_remove(s, i, arg)
          [] st = ST_TEI_IDVERIFY /\ event = "EV_CHKREQ" -> tei_id_chk_req(s, i, arg)
          [] OTHER -> {s}

\* TeiFnList: the handler of each (state, event) pair; any other pair is
\* ignored
mISDN_FsmEvent(s, i, event, arg) ==
    LET st == Ent(s, i).state
    IN  CASE st = ST_TEI_NOP /\ event = "EV_IDREQ" -> tei_id_request(s, i)
          [] st = ST_TEI_NOP /\ event = "EV_ASSIGN" -> tei_id_test_dup(s, i, arg)
          [] st = ST_TEI_NOP /\ event = "EV_ASSIGN_REQ" -> tei_assign_req(s, i, arg)
          [] st = ST_TEI_NOP /\ event = "EV_VERIFY" -> tei_id_verify(s, i)
          [] st = ST_TEI_NOP /\ event = "EV_REMOVE" -> tei_id_remove(s, i, arg)
          [] st = ST_TEI_NOP /\ event = "EV_CHKREQ" -> tei_id_chk_req(s, i, arg)
          [] st = ST_TEI_IDREQ /\ event = "EV_TIMER" -> tei_id_req_tout(s, i)
          [] st = ST_TEI_IDREQ /\ event = "EV_ASSIGN" -> tei_id_assign(s, i, arg)
          [] st = ST_TEI_IDREQ /\ event = "EV_DENIED" -> tei_id_denied(s, i, arg)
          [] st = ST_TEI_IDVERIFY /\ event = "EV_TIMER" -> tei_id_ver_tout(s, i)
          [] st = ST_TEI_IDVERIFY /\ event = "EV_REMOVE" -> tei_id_remove(s, i, arg)
          [] st = ST_TEI_IDVERIFY /\ event = "EV_CHKREQ" -> tei_id_chk_req(s, i, arg)
          [] OTHER -> {s}

\* expiry of the session's timer: the timer is no longer pending when
\* EV_TIMER is delivered
FsmExpireTimer(s, i) ==
    mISDN_FsmEvent([s EXCEPT !.layer2[i].timer = FALSE,
                             !.layer2[i].exp = @ + 1], i, "EV_TIMER", <<>>)

----------------------------------------------------------------------------
(* Inbound dispatch *)

\* mutant of tei_ph_data_ind: ID_VERIFY raises EV_VERIFY
tei_ph_data_ind_VerifyEvent(s, i, mt, dp) ==
    IF Ent(s, i).fixed /\ ~Ent(s, i).net THEN {s}
    ELSE CASE mt = ID_ASSIGNED -> mISDN_FsmEvent(s, i, "EV_ASSIGN", dp)
           [] mt = ID_DENIED -> mISDN_FsmEvent(s, i, "EV_DENIED", dp)
           [] mt = ID_CHK_REQ -> mISDN_FsmEvent(s, i, "EV_CHKREQ", dp)
           [] mt = ID_REMOVE -> mISDN_FsmEvent(s, i, "EV_REMOVE", dp)
           [] mt = ID_VERIFY -> mISDN_FsmEvent(s, i, "EV_VERIFY", dp)
           [] OTHER -> {s}

tei_ph_data_ind(s, i, mt, dp) ==
    IF Ent(s, i).fixed /\ ~Ent(s, i).net THEN {s}
    ELSE CASE mt = ID_ASSIGNED -> mISDN_FsmEvent(s, i, "EV_ASSIGN", dp)
           [] mt = ID_DENIED -> mISDN_FsmEvent(s, i, "EV_DENIED", dp)
           [] mt = ID_CHK_REQ -> mISDN_FsmEvent(s, i, "EV_CHKREQ", dp)
           [] mt = ID_REMOVE -> mISDN_FsmEvent(s, i, "EV_REMOVE", dp)
           [] OTHER -> {s}

new_tei_req(s, dp) == s

RECURSIVE FanOut(_, _, _, _)
RECURSIVE FanOut_FirstOnly(_, _, _, _)

\* mutant of the loop of ph_data_ind: a removal goes to the first entity of
\* the list only
FanOut_FirstOnly(S, i, mt, dp) ==
    IF (i > 1 /\ mt = ID_REMOVE) \/ \A s \in S : i > Len(s.layer2) THEN S
    ELSE FanOut_FirstOnly(UNION {tei_ph_data_ind(s, i, mt, dp) : s \in S}, i + 1, mt, dp)

\* list_for_each_entry(l2, &mgr->layer2, list) tei_ph_data_ind(l2->tm, ...)
FanOut(S, i, mt, dp) ==
    IF \A s \in S : i > Len(s.layer2) THEN S
    ELSE FanOut(UNION {tei_ph_data_ind(s, i, mt, dp) : s \in S}, i + 1, mt, dp)

\* x & 0xef
And0xef(x) == x - (IF (x \div 16) % 2 = 1 THEN 16 ELSE 0)

\* mutant of ph_data_ind: the message type is not tested against the
\* manager's role
ph_data_ind_NoRoleTest(s, data) ==
    LET reject == [ret |-> "EINVAL", S |-> {s}]
    IN  IF Len(data) < 8 THEN reject
        ELSE IF data[1] \div 4 # TEI_SAPI THEN reject
        ELSE IF data[1] % 2 = 1 THEN reject
        ELSE IF data[2] % 2 = 0 THEN reject
        ELSE IF data[2] \div 2 # GROUP_TEI THEN reject
        ELSE IF And0xef(data[3]) # UI THEN reject
        ELSE IF data[4] # TEI_ENTITY_ID THEN reject
        ELSE LET mt == data[7]
                 dp == SubSeq(data, 5, Len(data))
             IN  IF mt \notin {ID_REQUEST, ID_CHK_RES, ID_VERIFY, ID_ASSIGNED,
                               ID_DENIED, ID_CHK_REQ, ID_REMOVE}
                 THEN reject
                 ELSE IF mt = ID_REQUEST
                      THEN [ret |-> "0", S |-> {new_tei_req(s, dp)}]
                 ELSE [ret |-> "0", S |-> FanOut({s}, 1, mt, dp)]

ph_data_ind(s, data) ==
    LET reject == [ret |-> "EINVAL", S |-> {s}]
    IN  IF Len(data) < 8 THEN reject
        ELSE IF data[1] \div 4 # TEI_SAPI THEN reject
        ELSE IF data[1] % 2 = 1 THEN reject
        ELSE IF data[2] % 2 = 0 THEN reject
        ELSE IF data[2] \div 2 # GROUP_TEI THEN reject
        ELSE IF And0xef(data[3]) # UI THEN reject
        ELSE IF data[4] # TEI_ENTITY_ID THEN reject
        ELSE LET mt == data[7]
                 dp == SubSeq(data, 5, Len(data))
             IN  IF mt \in {ID_REQUEST, ID_CHK_RES, ID_VERIFY} /\ ~optNet THEN reject
                 ELSE IF mt \in {ID_ASSIGNED, ID_DENIED, ID_CHK_REQ, ID_REMOVE} /\ optNet
                      THEN reject
                 ELSE IF mt \notin {ID_REQUEST, ID_CHK_RES, ID_VERIFY, ID_ASSIGNED,
                                    ID_DENIED, ID_CHK_REQ, ID_REMOVE}
                      THEN reject
                 ELSE IF mt = ID_REQUEST
                      THEN [ret |-> "0", S |-> {new_tei_req(s, dp)}]
                 ELSE [ret |-> "0", S |-> FanOut({s}, 1, mt, dp)]

----------------------------------------------------------------------------
(* Requests of the entity owner *)

\* mutant of l2_tei: FLG_FIXED_TEI is not tested
l2_tei_NoFixedTest(s, i, cmd) ==
    CASE cmd = "MDL_ASSIGN_IND" -> mISDN_FsmEvent(s, i, "EV_IDREQ", <<>>)
      [] cmd = "MDL_ERROR_IND" -> mISDN_FsmEvent(s, i, "EV_VERIFY", <<>>)
      [] OTHER -> {s}

l2_tei(s, i, cmd) ==
    CASE cmd = "MDL_ASSIGN_IND" ->
            IF Ent(s, i).fixed
            THEN {tei_l2(s, i, "MDL_ASSIGN_REQ", Ent(s, i).tei)}
            ELSE mISDN_FsmEvent(s, i, "EV_IDREQ", <<>>)
      [] cmd = "MDL_ERROR_IND" ->
            IF ~Ent(s, i).fixed
            THEN mISDN_FsmEvent(s, i, "EV_VERIFY", <<>>)
            ELSE {s}
      [] OTHER -> {s}

\* mutant of release_tei: the timer is not deleted before the teimgr is freed
release_tei_NoDelTimer(s, i) ==
    [s EXCEPT !.orphan = @ \/ Ent(s, i).timer,
              !.layer2 = RemoveAt(@, i)]

release_tei(s, i) ==
    LET s1 == mISDN_FsmDelTimer(s, i)
    IN  [s1 EXCEPT !.orphan = @ \/ Ent(s1, i).timer,
                   !.layer2 = RemoveAt(@, i)]

\* create_l2(protocol, opt, tei) followed by the teimgr set-up
NewEntity(protocol, fixed, tei) ==
    [tei |-> tei, sapi |-> 0, fixed |-> fixed,
     net |-> (protocol = ISDN_P_LAPD_NT),
     state |-> ST_TEI_NOP, ri |-> 0, nval |-> 0, timer |-> FALSE,
     tval |-> IF protocol = ISDN_P_LAPD_TE THEN T201 ELSE T202,
     exp |-> 0, tx |-> 0]

\* mutant of create_teimgr: a terminal-side manager accepts a TEI of the
\* dynamic range
create_teimgr_UserDynTei(s, protocol, sapi, tei) ==
    IF sapi # 0 THEN [ret |-> "EINVAL", s |-> s]
    ELSE IF tei > GROUP_TEI THEN [ret |-> "EINVAL", s |-> s]
    ELSE IF optNet /\ protocol = ISDN_P_LAPD_TE
         THEN [ret |-> "EPROTONOSUPPORT", s |-> s]
    ELSE IF optUser /\ protocol = ISDN_P_LAPD_NT
         THEN [ret |-> "EPROTONOSUPPORT", s |-> s]
    ELSE [ret |-> "0",
          s |-> [s EXCEPT !.layer2 = Append(@, NewEntity(protocol, tei < 64, tei))]]

create_teimgr(s, protocol, sapi, tei) ==
    IF sapi # 0 THEN [ret |-> "EINVAL", s |-> s]
    ELSE IF tei > GROUP_TEI THEN [ret |-> "EINVAL", s |-> s]
    ELSE IF optNet /\ protocol = ISDN_P_LAPD_TE
         THEN [ret |-> "EPROTONOSUPPORT", s |-> s]
    ELSE IF optUser /\ protocol = ISDN_P_LAPD_NT
         THEN [ret |-> "EPROTONOSUPPORT", s |-> s]
    ELSE IF optUser /\ tei >= 64 /\ tei < GROUP_TEI
         THEN [ret |-> "EINVAL", s |-> s]
    ELSE [ret |-> "0",
          s |-> [s EXCEPT !.layer2 = Append(@, NewEntity(protocol, tei < 64, tei))]]

----------------------------------------------------------------------------
(* mgr_send: the primitives arriving from the physical channel and above *)

\* mutant of mgr_send: PH_ACTIVATE_IND sets MGR_PH_ACTIVE and sends nothing
mgr_send_NoSendOnActivate(s, prim, id, data) ==
    CASE prim = "PH_DATA_IND" -> ph_data_ind(s, data)
      [] prim = "PH_DATA_CNF" ->
            [ret |-> "0", S |-> do_ack([s EXCEPT !.inflight = @ \ {id}], id)]
      [] prim = "PH_ACTIVATE_IND" ->
            [ret |-> "0", S |-> {[s EXCEPT !.active = TRUE]}]
      [] prim = "PH_DEACTIVATE_IND" ->
            [ret |-> "0", S |-> {[s EXCEPT !.active = FALSE]}]
      [] prim = "DL_UNITDATA_REQ" -> dl_unit_data(s, data)
      [] OTHER -> [ret |-> "EINVAL", S |-> {s}]

\* mutant of mgr_send: PH_DEACTIVATE_IND also purges the send queue
mgr_send_Flush(s, prim, id, data) ==
    CASE prim = "PH_DATA_IND" -> ph_data_ind(s, data)
      [] prim = "PH_DATA_CNF" ->
            [ret |-> "0", S |-> do_ack([s EXCEPT !.inflight = @ \ {id}], id)]
      [] prim = "PH_ACTIVATE_IND" ->
            [ret |-> "0", S |-> do_send([s EXCEPT !.active = TRUE])]
      [] prim = "PH_DEACTIVATE_IND" ->
            [ret |-> "0", S |-> {[s EXCEPT !.active = FALSE, !.sendq = <<>>]}]
      [] prim = "DL_UNITDATA_REQ" -> dl_unit_data(s, data)
      [] OTHER -> [ret |-> "EINVAL", S |-> {s}]

mgr_send(s, prim, id, data) ==
    CASE prim = "PH_DATA_IND" -> ph_data_ind(s, data)
      [] prim = "PH_DATA_CNF" ->
            [ret |-> "0", S |-> do_ack([s EXCEPT !.inflight = @ \ {id}], id)]
      [] prim = "PH_ACTIVATE_IND" ->
            [ret |-> "0", S |-> do_send([s EXCEPT !.active = TRUE])]
      [] prim = "PH_DEACTIVATE_IND" ->
            [ret |-> "0", S |-> {[s EXCEPT !.active = FALSE]}]
      [] prim = "DL_UNITDATA_REQ" -> dl_unit_data(s, data)
      [] OTHER -> [ret |-> "EINVAL", S |-> {s}]

mgr_ctrl(s, protocol, sapi, tei) == create_teimgr(s, protocol, sapi, tei)

----------------------------------------------------------------------------
(* Inputs *)

MkId(n) == n * 65536 + GROUP_TEI * 256 + TEI_SAPI

AckIds == {MkId(n) : n \in 1 .. MaxWork} \cup {0}

\* inbound frames as the peer's put_tei_msg builds them; the reference
\* value and the TEI vary where a handler reads them
NetFrame(mt, ri, tei) == TeiFrame(TRUE, mt, ri, tei)
UserFrame(mt, ri, tei) == TeiFrame(FALSE, mt, ri, tei)

GoodFrames ==
    {NetFrame(ID_ASSIGNED, ri, tei) : ri \in RiVals, tei \in TeiVals}
    \cup {NetFrame(mt, 257, tei) : mt \in {ID_CHK_REQ, ID_REMOVE}, tei \in TeiVals}
    \cup {NetFrame(ID_DENIED, 257, GROUP_TEI)}
    \cup {UserFrame(mt, 257, 70) : mt \in {ID_REQUEST, ID_CHK_RES, ID_VERIFY}}

BadFrames ==
    { SubSeq(TeiFrame(TRUE, ID_ASSIGNED, 0, 70), 1, 7),
      [TeiFrame(TRUE, ID_ASSIGNED, 0, 70) EXCEPT ![1] = 2],
      [TeiFrame(TRUE, ID_ASSIGNED, 0, 70) EXCEPT ![7] = 8] }

InFrames == GoodFrames \cup BadFrames

\* the exploration stops creating entities and frames when the ids handed
\* out so far plus twice the registered entities exceed MaxWork
IdsLeft(s) == (s.nextid - 1) + 2 * Len(s.layer2) <= MaxWork

----------------------------------------------------------------------------
(* Actions: one per entry point *)

\* the manager after mISDN_create_manager, with the role its owner gave it
MgrInit ==
    /\ optNet \in BOOLEAN
    /\ optUser \in BOOLEAN
    /\ optNet \/ optUser
    /\ layer2 = <<>>
    /\ active = FALSE
    /\ notready = FALSE
    /\ lastid = MISDN_ID_NONE
    /\ sendq = <<>>
    /\ nextid = 1
    /\ inflight = {}
    /\ orphan = FALSE

Init ==
    /\ MgrInit
    /\ probe = [kind |-> "none"]

PhDataInd ==
    \E data \in InFrames :
        LET r == mgr_send(Cur, "PH_DATA_IND", 0, data)
        IN  \E s \in r.S :
                /\ IdsLeft(s)
                /\ Commit(s)

PhDataCnf ==
    \E id \in AckIds :
        LET r == mgr_send(Cur, "PH_DATA_CNF", id, <<>>)
        IN  \E s \in r.S : Commit(s)

PhActivateInd ==
    LET r == mgr_send(Cur, "PH_ACTIVATE_IND", 0, <<>>)
    IN  \E s \in r.S : Commit(s)

PhDeactivateInd ==
    LET r == mgr_send(Cur, "PH_DEACTIVATE_IND", 0, <<>>)
    IN  \E s \in r.S : Commit(s)

DlUnitDataReq ==
    \E payload \in Payloads :
        LET r == mgr_send(Cur, "DL_UNITDATA_REQ", 0, payload)
        IN  \E s \in r.S :
                /\ IdsLeft(s)
                /\ Commit(s)

CreateChannel ==
    \E protocol \in Protocols, sapi \in SapiVals, tei \in CreateTeiVals :
        LET r == mgr_ctrl(Cur, protocol, sapi, tei)
        IN  /\ IdsLeft(r.s)
            /\ Commit(r.s)

ReleaseTei ==
    \E i \in 1 .. Len(layer2) :
        Commit(release_tei(Cur, i))

MdlAssignInd ==
    \E i \in 1 .. Len(layer2) :
        \E s \in l2_tei(Cur, i, "MDL_ASSIGN_IND") :
            /\ IdsLeft(s)
            /\ Commit(s)

MdlErrorInd ==
    \E i \in 1 .. Len(layer2) :
        \E s \in l2_tei(Cur, i, "MDL_ERROR_IND") :
            /\ IdsLeft(s)
            /\ Commit(s)

TimerExpiredAt(i) ==
    /\ i \in 1 .. Len(layer2)
    /\ layer2[i].timer
    /\ \E s \in FsmExpireTimer(Cur, i) :
          /\ IdsLeft(s)
          /\ Commit(s)

TimerExpired == \E i \in 1 .. MaxWork \div 2 : TimerExpiredAt(i)

Next ==
    \/ PhDataInd
    \/ PhDataCnf
    \/ PhActivateInd
    \/ PhDeactivateInd
    \/ DlUnitDataReq
    \/ CreateChannel
    \/ ReleaseTei
    \/ MdlAssignInd
    \/ MdlErrorInd
    \/ TimerExpired

Spec == Init /\ [][Next]_vars

----------------------------------------------------------------------------
(* Helpers of the properties *)

Sessions == 1 .. Len(layer2)

Busy(e) == e.state \in {ST_TEI_IDREQ, ST_TEI_IDVERIFY}

\* the session takes inbound frames (tei_ph_data_ind does not return early)
Receives(e) == ~(e.fixed /\ ~e.net)

AssignFrames == {NetFrame(ID_ASSIGNED, ri, tei) : ri \in RiVals, tei \in TeiVals}

FrameRi(data) == DpRi(SubSeq(data, 5, 8))
FrameTei(data) == DpTei(SubSeq(data, 5, 8))

\* the notifications with command cmd a call raised to the owner of entity i
NotesOf(s, i, cmd) ==
    {k \in 1 .. Len(s.notes) : s.notes[k].l2 = i /\ s.notes[k].cmd = cmd}

\* the frames of message type mt a call appended to the send queue
EnqOf(s, mt) == {k \in 1 .. Len(s.enq) : s.enq[k].data[7] = mt}

SameSession(e, f) ==
    /\ e.state = f.state
    /\ e.ri = f.ri
    /\ e.nval = f.nval
    /\ e.timer = f.timer
    /\ e.tei = f.tei

----------------------------------------------------------------------------
(* C1: in every reachable state a session's timer is pending if and only if
   the session is in ST_TEI_IDREQ or ST_TEI_IDVERIFY, and no session was
   destroyed with its timer still pending. *)
C1_TimerIffBusy ==
    /\ \A i \in Sessions : layer2[i].timer <=> Busy(layer2[i])
    /\ ~orphan

\* a terminal-side dynamic entity completed its assignment: it left
\* ST_TEI_IDREQ and its timer is cancelled
C1_Witness ==
    \E i \in Sessions :
        /\ optUser /\ ~layer2[i].fixed
        /\ layer2[i].tei = 70
        /\ layer2[i].state = ST_TEI_NOP
        /\ ~layer2[i].timer

(* C2: StartAssign (MDL_ASSIGN_IND on a dynamic entity) on an Idle session
   whose tei is GROUP_TEI appends exactly one frame to the send queue, an
   ID_REQUEST carrying tei GROUP_TEI and the reference value the session
   stores, which can be any random value; the session ends in ST_TEI_IDREQ
   with nval = 3 and its timer armed, and no notification is raised. *)
C2_StartAssign ==
    \A i \in Sessions :
        (/\ layer2[i].state = ST_TEI_NOP
         /\ layer2[i].tei = GROUP_TEI
         /\ ~layer2[i].fixed)
        => LET S == l2_tei(Cur, i, "MDL_ASSIGN_IND")
           IN  /\ {s.layer2[i].ri : s \in S} = RiVals
               /\ \A s \in S :
                    /\ Len(s.enq) = 1
                    /\ s.enq[1].data = TeiFrame(layer2[i].net, ID_REQUEST,
                                                s.layer2[i].ri, GROUP_TEI)
                    /\ s.nextid = nextid + 1
                    /\ s.layer2[i].state = ST_TEI_IDREQ
                    /\ s.layer2[i].nval = 3
                    /\ s.layer2[i].timer
                    /\ s.layer2[i].tei = GROUP_TEI
                    /\ s.notes = <<>>

\* the state right after StartAssign with the link down: the request is the
\* only frame and waits in the queue
C2_Witness ==
    \E i \in Sessions :
        /\ layer2[i].state = ST_TEI_IDREQ
        /\ layer2[i].nval = 3 /\ layer2[i].exp = 0 /\ layer2[i].tx = 1
        /\ layer2[i].timer
        /\ nextid = 2
        /\ Len(sendq) = 1
        /\ sendq[1].data = TeiFrame(layer2[i].net, ID_REQUEST, layer2[i].ri, GROUP_TEI)

(* C3: in ST_TEI_IDREQ the entity is unassigned and has sent one ID_REQUEST
   more than timers have expired; the first and the second expiry each store
   a new reference value, send one ID_REQUEST carrying it and rearm the
   timer; exactly the third expiry raises MDL_ERROR_RSP (assignment failed)
   and leaves the session Idle, unassigned, without timer and without a
   further frame, three ID_REQUEST frames having been sent in total. *)
C3_ThirdExpiryFails ==
    \A i \in Sessions :
        layer2[i].state = ST_TEI_IDREQ =>
            /\ layer2[i].exp \in 0 .. 2
            /\ layer2[i].tx = layer2[i].exp + 1
            /\ layer2[i].tei = GROUP_TEI
            /\ layer2[i].timer
            /\ \A s \in FsmExpireTimer(Cur, i) :
                 IF layer2[i].exp = 2
                 THEN /\ layer2[i].tx = 3
                      /\ s.notes = <<[l2 |-> i, cmd |-> "MDL_ERROR_RSP", arg |-> 0]>>
                      /\ s.layer2[i].state = ST_TEI_NOP
                      /\ s.layer2[i].tei = GROUP_TEI
                      /\ ~s.layer2[i].timer
                      /\ s.enq = <<>>
                 ELSE /\ s.notes = <<>>
                      /\ Len(s.enq) = 1
                      /\ s.enq[1].data = TeiFrame(layer2[i].net, ID_REQUEST,
                                                  s.layer2[i].ri, GROUP_TEI)
                      /\ s.layer2[i].state = ST_TEI_IDREQ
                      /\ s.layer2[i].timer
                      /\ s.layer2[i].tei = GROUP_TEI
                      /\ s.layer2[i].exp = layer2[i].exp + 1
                      /\ s.layer2[i].tx = layer2[i].tx + 1

\* the third expiry: two expiries and three requests so far, and the
\* expiry now due reports the failure
C3_Witness ==
    \E i \in Sessions :
        /\ layer2[i].state = ST_TEI_IDREQ
        /\ layer2[i].exp = 2 /\ layer2[i].tx = 3
        /\ \E s \in FsmExpireTimer(Cur, i) :
              /\ NotesOf(s, i, "MDL_ERROR_RSP") # {}
              /\ s.layer2[i].state = ST_TEI_NOP

\* session i of outcome s completed its assignment with TEI tei
AssignCompleted(s, i, tei) ==
    /\ s.layer2[i].state = ST_TEI_NOP
    /\ s.layer2[i].tei = tei
    /\ ~s.layer2[i].timer
    /\ Cardinality(NotesOf(s, i, "MDL_ASSIGN_REQ")) = 1
    /\ \A k \in NotesOf(s, i, "MDL_ASSIGN_REQ") : s.notes[k].arg = tei

\* an accepted ID_ASSIGNED frame reaches session i in ST_TEI_IDREQ and
\* carries the reference value the session stores
AssignMatches(data, i) ==
    /\ ph_data_ind(Cur, data).ret = "0"
    /\ layer2[i].state = ST_TEI_IDREQ
    /\ Receives(layer2[i])
    /\ FrameRi(data) = layer2[i].ri

(* C4 as stated: in ST_TEI_IDREQ an ID_ASSIGNED frame with the session's
   reference value completes the assignment (Idle, entity tei = frame tei,
   timer cancelled, exactly one MDL_ASSIGN_REQ), whatever the frame's tei and
   whatever TEIs the other entities hold. *)
C4_Original ==
    \A data \in AssignFrames : \A i \in Sessions :
        AssignMatches(data, i)
        => \A s \in ph_data_ind(Cur, data).S : AssignCompleted(s, i, FrameTei(data))

(* C4 amended: in ST_TEI_IDREQ an ID_ASSIGNED frame with the session's
   reference value completes the assignment (Idle, entity tei = frame tei,
   timer cancelled, exactly one MDL_ASSIGN_REQ) provided findtei finds no
   registered entity holding the frame's tei and no earlier session of the
   list is in ST_TEI_IDREQ with the same reference value; when findtei finds
   a holder the session stays in ST_TEI_IDREQ with its timer pending and no
   MDL_ASSIGN_REQ is raised. *)
C4_AssignCompletes ==
    \A data \in AssignFrames : \A i \in Sessions :
        AssignMatches(data, i)
        => \A s \in ph_data_ind(Cur, data).S :
             /\ (/\ findtei(Cur, FrameTei(data)) = 0
                 /\ \A j \in 1 .. i - 1 :
                       ~(/\ layer2[j].state = ST_TEI_IDREQ
                         /\ layer2[j].ri = FrameRi(data)))
                => AssignCompleted(s, i, FrameTei(data))
             /\ findtei(Cur, FrameTei(data)) # 0
                => /\ SameSession(s.layer2[i], layer2[i])
                   /\ NotesOf(s, i, "MDL_ASSIGN_REQ") = {}

\* two entities are registered, the second one is requesting, and the frame
\* assigning it TEI 70 with its reference value completes the assignment
C4_Witness ==
    /\ Len(layer2) = 2
    /\ layer2[1].tei = 5
    /\ \E data \in AssignFrames :
          /\ FrameTei(data) = 70
          /\ AssignMatches(data, 2)
          /\ \E s \in ph_data_ind(Cur, data).S : AssignCompleted(s, 2, 70)

\* session i is Idle and takes an accepted ID_ASSIGNED frame
IdleReceives(data, i) ==
    /\ ph_data_ind(Cur, data).ret = "0"
    /\ layer2[i].state = ST_TEI_NOP
    /\ Receives(layer2[i])

\* EV_VERIFY on session h, as seen in outcome s: an Idle session sent one
\* ID_VERIFY(0, its tei) and is verifying, any other session is unchanged
VerifyRaised(s, h) ==
    IF layer2[h].state = ST_TEI_NOP
    THEN /\ s.layer2[h].state = ST_TEI_IDVERIFY
         /\ s.layer2[h].nval = 2
         /\ s.layer2[h].timer
         /\ s.layer2[h].tei = layer2[h].tei
         /\ Len(s.enq) = 1
         /\ s.enq[1].data = TeiFrame(layer2[h].net, ID_VERIFY, 0, layer2[h].tei)
    ELSE /\ SameSession(s.layer2[h], layer2[h])
         /\ s.enq = <<>>

(* C5 as stated: an Idle session receives an ID_ASSIGNED frame whose tei is
   held by a different registered entity with another reference value: the
   verification is raised on that entity's session and the receiving session
   is unchanged. *)
C5_Original ==
    \A data \in AssignFrames : \A i \in Sessions : \A h \in Sessions \ {i} :
        (/\ IdleReceives(data, i)
         /\ layer2[h].tei = FrameTei(data)
         /\ layer2[h].tei # GROUP_TEI
         /\ layer2[h].ri # FrameRi(data))
        => \A s \in ph_data_ind(Cur, data).S :
             /\ SameSession(s.layer2[i], layer2[i])
             /\ VerifyRaised(s, h)

(* C5 amended: an Idle session receives an ID_ASSIGNED frame with a tei in
   1..126; the first entity of the list holding that tei (the one findtei
   returns) is a different entity and stores another reference value: the
   verification is raised on that entity's session (if Idle it sends one
   ID_VERIFY(0, tei) and enters ST_TEI_IDVERIFY with nval = 2 and the timer
   armed) and the receiving session's state, ri, nval, timer and tei are
   unchanged.  A frame with tei 0 raises nothing, findtei never returning a
   holder of TEI 0. *)
C5_ForeignAssignVerifies ==
    \A data \in AssignFrames : \A i \in Sessions :
        IdleReceives(data, i)
        => LET h == findtei(Cur, FrameTei(data))
           IN  \A s \in ph_data_ind(Cur, data).S :
                 /\ (h # 0 /\ h # i /\ layer2[h].ri # FrameRi(data))
                    => /\ SameSession(s.layer2[i], layer2[i])
                       /\ VerifyRaised(s, h)
                 /\ FrameTei(data) = 0
                    => /\ s.enq = <<>>
                       /\ \A k \in Sessions : s.layer2[k].state # ST_TEI_IDVERIFY
                                                 \/ layer2[k].state = ST_TEI_IDVERIFY

\* a fixed entity holds TEI 5, an Idle dynamic entity receives the frame
\* assigning TEI 5 under a foreign reference value, and the holder verifies
C5_Witness ==
    \E data \in AssignFrames : \E i \in Sessions :
        /\ IdleReceives(data, i)
        /\ FrameTei(data) = 5
        /\ LET h == findtei(Cur, 5)
           IN  /\ h # 0 /\ h # i
               /\ layer2[h].ri # FrameRi(data)
               /\ layer2[h].state = ST_TEI_NOP
               /\ \E s \in ph_data_ind(Cur, data).S :
                     s.layer2[h].state = ST_TEI_IDVERIFY

(* C6: in ST_TEI_IDVERIFY (entered with nval = 2) the session has sent one
   ID_VERIFY more than timers have expired and its timer is pending; the
   first expiry sends exactly one ID_VERIFY(0, entity tei) and rearms the
   timer, the second raises exactly one MDL_REMOVE_REQ to the owner and
   leaves the session Idle without timer and without a further frame;
   MDL_ERROR_RSP is raised by neither. *)
C6_SecondExpiryRemoves ==
    \A i \in Sessions :
        layer2[i].state = ST_TEI_IDVERIFY =>
            /\ layer2[i].exp \in 0 .. 1
            /\ layer2[i].tx = layer2[i].exp + 1
            /\ layer2[i].nval = 2 - layer2[i].exp
            /\ layer2[i].timer
            /\ \A s \in FsmExpireTimer(Cur, i) :
                 /\ NotesOf(s, i, "MDL_ERROR_RSP") = {}
                 /\ IF layer2[i].exp = 1
                    THEN /\ s.notes = <<[l2 |-> i, cmd |-> "MDL_REMOVE_REQ", arg |-> 0]>>
                         /\ s.layer2[i].state = ST_TEI_NOP
                         /\ ~s.layer2[i].timer
                         /\ s.enq = <<>>
                    ELSE /\ s.notes = <<>>
                         /\ Len(s.enq) = 1
                         /\ s.enq[1].data = TeiFrame(layer2[i].net, ID_VERIFY,
                                                     0, layer2[i].tei)
                         /\ s.layer2[i].state = ST_TEI_IDVERIFY
                         /\ s.layer2[i].timer
                         /\ s.layer2[i].exp = 1
                         /\ s.layer2[i].tx = 2

\* the second expiry is due: one expiry and two ID_VERIFY frames so far, and
\* the expiry asks the owner to remove the TEI
C6_Witness ==
    \E i \in Sessions :
        /\ layer2[i].state = ST_TEI_IDVERIFY
        /\ layer2[i].exp = 1 /\ layer2[i].tx = 2
        /\ \E s \in FsmExpireTimer(Cur, i) :
              /\ NotesOf(s, i, "MDL_REMOVE_REQ") # {}
              /\ s.layer2[i].state = ST_TEI_NOP

(* C7: at most one frame handed to the lower channel is unconfirmed in any
   reachable state; while one is, MGR_PH_NOTREADY is set and mgr->lastid is
   its id. *)
C7_OneInFlight ==
    /\ Cardinality(inflight) <= 1
    /\ inflight # {} => (notready /\ inflight = {lastid})

\* a frame is unconfirmed while the link is active and another frame waits
C7_Witness ==
    /\ Cardinality(inflight) = 1
    /\ active
    /\ sendq # <<>>

(* C8: in every reachable state, hence after every queue operation,
   MGR_PH_NOTREADY is set if and only if mgr->lastid is not MISDN_ID_NONE. *)
C8_NotReadyIffLastid ==
    notready <=> lastid # MISDN_ID_NONE

\* the queue has been used and is drained with the link active: a confirm
\* found the queue empty or a hand-off was rejected
C8_Witness ==
    /\ active
    /\ nextid > 1
    /\ sendq = <<>>
    /\ inflight = {}
    /\ ~notready
    /\ lastid = MISDN_ID_NONE

\* a confirm carrying mgr->lastid arrives while MGR_PH_NOTREADY is set and
\* the send queue is not empty
AckWithBacklog == notready /\ sendq # <<>>

(* C9 as stated: a confirm with id = lastid, arriving while NOTREADY is set
   and the queue is not empty, hands the queue head to the lower channel in
   the same step and leaves NOTREADY set with lastid the id of that frame. *)
C9_Original ==
    AckWithBacklog
    => \A s \in mgr_send(Cur, "PH_DATA_CNF", lastid, <<>>).S :
         /\ Len(s.handed) = 1
         /\ s.handed[1].id = Head(sendq).id
         /\ s.notready
         /\ s.lastid = Head(sendq).id

(* C9 amended: a confirm with id = lastid, arriving while NOTREADY is set and
   the queue is not empty: with the link active the queue head is dequeued
   and handed to the lower channel in the same step; if the channel takes it
   NOTREADY stays set and lastid is that frame's id, if the channel rejects
   it the frame is dropped, NOTREADY is cleared and lastid is MISDN_ID_NONE.
   With the link inactive nothing is handed over, the queue is unchanged,
   NOTREADY is cleared and lastid is MISDN_ID_NONE. *)
C9_AckChainsSend ==
    AckWithBacklog
    => LET S == mgr_send(Cur, "PH_DATA_CNF", lastid, <<>>).S
       IN  IF active
           THEN /\ \E s \in S : Len(s.handed) = 1 /\ s.handed[1].ok
                /\ \E s \in S : Len(s.handed) = 1 /\ ~s.handed[1].ok
                /\ \A s \in S :
                     /\ Len(s.handed) = 1
                     /\ s.handed[1].id = Head(sendq).id
                     /\ s.handed[1].data = Head(sendq).data
                     /\ s.sendq = Tail(sendq)
                     /\ IF s.handed[1].ok
                        THEN /\ s.notready
                             /\ s.lastid = Head(sendq).id
                             /\ s.inflight = {Head(sendq).id}
                        ELSE /\ ~s.notready
                             /\ s.lastid = MISDN_ID_NONE
                             /\ s.inflight = {}
           ELSE \A s \in S :
                     /\ s.handed = <<>>
                     /\ s.sendq = sendq
                     /\ ~s.notready
                     /\ s.lastid = MISDN_ID_NONE

\* the confirm of the frame in flight is due with the link active and a
\* frame waiting, and the waiting frame follows in the same step
C9_Witness ==
    /\ AckWithBacklog
    /\ active
    /\ lastid \in inflight
    /\ \E s \in mgr_send(Cur, "PH_DATA_CNF", lastid, <<>>).S :
          /\ s.notready
          /\ s.lastid = Head(sendq).id
          /\ s.inflight = {Head(sendq).id}

(* C10: a confirm whose id is not mgr->lastid, or that arrives while
   MGR_PH_NOTREADY is clear, changes nothing: NOTREADY, lastid, the link
   flag, the send queue, the id counter and every session are unchanged,
   nothing is handed to the lower channel, nothing is enqueued and no
   notification is raised. *)
C10_StaleAckNoOp ==
    \A id \in AckIds :
        (~notready \/ id # lastid)
        => LET r == mgr_send(Cur, "PH_DATA_CNF", id, <<>>)
           IN  /\ r.ret = "0"
               /\ r.S = {Cur}

\* the first frame was confirmed and the second is in flight with a third
\* waiting; the first frame's confirm arrives again
C10_Witness ==
    /\ notready
    /\ active
    /\ lastid = MkId(2)
    /\ sendq # <<>>
    /\ mgr_send(Cur, "PH_DATA_CNF", MkId(1), <<>>).S = {Cur}

\* entity i of a terminal-side manager is dynamic, unassigned and Idle
FreshDynamic(i) ==
    /\ optUser /\ ~optNet
    /\ ~layer2[i].fixed
    /\ layer2[i].tei = GROUP_TEI
    /\ layer2[i].state = ST_TEI_NOP

\* session i is requesting and its ID_REQUEST is the only frame queued,
\* nothing having been handed to the lower channel yet
RequestQueued(i) ==
    /\ optUser /\ ~optNet
    /\ layer2[i].state = ST_TEI_IDREQ
    /\ ~active /\ ~notready
    /\ Len(sendq) = 1
    /\ sendq[1].data = TeiFrame(FALSE, ID_REQUEST, layer2[i].ri, GROUP_TEI)

(* C11: on a terminal-side manager with the link inactive, MDL_ASSIGN_IND on
   an unassigned dynamic entity queues ID_REQUEST(R, 127), asks once for
   link activation and hands nothing over; PH_ACTIVATE_IND then hands that
   frame to the lower channel, which leaves MGR_PH_NOTREADY set when the
   channel takes it; ID_ASSIGNED(R, 70) reaching the requesting session,
   with no entity holding TEI 70 and no earlier session requesting under R,
   leaves it Idle with tei 70, no timer and exactly one MDL_ASSIGN_REQ(70),
   whether the request is queued, in flight or confirmed. *)
C11_AssignScenario ==
    \A i \in Sessions :
        /\ (FreshDynamic(i) /\ ~active)
           => \A s \in l2_tei(Cur, i, "MDL_ASSIGN_IND") :
                /\ s.sendq = Append(sendq, s.enq[1])
                /\ Len(s.enq) = 1
                /\ s.enq[1].data = TeiFrame(FALSE, ID_REQUEST, s.layer2[i].ri, GROUP_TEI)
                /\ s.actreq = 1
                /\ s.handed = <<>>
                /\ s.layer2[i].state = ST_TEI_IDREQ
        /\ RequestQueued(i)
           => LET S == mgr_send(Cur, "PH_ACTIVATE_IND", 0, <<>>).S
              IN  /\ \E s \in S : s.notready
                  /\ \A s \in S :
                       /\ s.active
                       /\ Len(s.handed) = 1
                       /\ s.handed[1].data = sendq[1].data
                       /\ s.sendq = <<>>
                       /\ s.handed[1].ok => (s.notready /\ s.lastid = sendq[1].id)
        /\ (/\ layer2[i].state = ST_TEI_IDREQ
            /\ optUser /\ ~optNet
            /\ findtei(Cur, 70) = 0
            /\ \A j \in 1 .. i - 1 :
                  ~(layer2[j].state = ST_TEI_IDREQ /\ layer2[j].ri = layer2[i].ri))
           => LET r == mgr_send(Cur, "PH_DATA_IND", 0,
                                NetFrame(ID_ASSIGNED, layer2[i].ri, 70))
              IN  /\ r.ret = "0"
                  /\ \A s \in r.S :
                       /\ AssignCompleted(s, i, 70)
                       /\ s.handed = <<>>
                       /\ s.notready = notready

\* the request went out on activation and is still unconfirmed when the
\* assignment of TEI 70 arrives and completes
C11_Witness ==
    /\ optUser /\ ~optNet
    /\ Len(layer2) = 1
    /\ layer2[1].state = ST_TEI_IDREQ
    /\ layer2[1].exp = 0
    /\ active /\ notready
    /\ sendq = <<>>
    /\ inflight = {MkId(1)}
    /\ \E s \in mgr_send(Cur, "PH_DATA_IND", 0,
                         NetFrame(ID_ASSIGNED, layer2[1].ri, 70)).S :
          AssignCompleted(s, 1, 70)

\* inbound frames for the decoder: the frames of the exploration, and one
\* well-formed frame with each single field spoiled in turn
DecoderFrames ==
    LET base == NetFrame(ID_ASSIGNED, 0, 70)
    IN  InFrames
        \cup { <<>>, SubSeq(base, 1, 7), base \o <<0>> }
        \cup { [base EXCEPT ![1] = b] : b \in {2, 253, 254} }
        \cup { [base EXCEPT ![2] = b] : b \in {254, 11} }
        \cup { [base EXCEPT ![3] = b] : b \in {0, 19, 7} }
        \cup { [base EXCEPT ![4] = b] : b \in {0, 14} }
        \cup { [base EXCEPT ![7] = b] : b \in {0, 8, 255} }

\* the frames the decoder has to reject, as the specification lists them
MustReject(data) ==
    \/ Len(data) < 8
    \/ /\ Len(data) >= 8
       /\ \/ data[1] \div 4 # TEI_SAPI
          \/ data[1] % 2 # 0
          \/ data[2] % 2 # 1
          \/ data[2] \div 2 # GROUP_TEI
          \/ And0xef(data[3]) # UI
          \/ data[4] # TEI_ENTITY_ID
          \/ data[7] \notin ID_REQUEST .. ID_VERIFY
          \/ data[7] \in {ID_ASSIGNED, ID_DENIED, ID_CHK_REQ, ID_REMOVE} /\ optNet
          \/ data[7] \in {ID_REQUEST, ID_CHK_RES, ID_VERIFY} /\ ~optNet

(* C12: an inbound frame that is shorter than 8 octets, has a wrong SAPI,
   wrong EA bits, a wrong group TEI, a control octet other than UI, a wrong
   management entity id, an unknown message type, or a message type of the
   wrong direction for the manager's role, returns -EINVAL and changes
   nothing: no session, no queue or flow-control state, and no frame,
   hand-off or notification results. *)
C12_RejectedFrameNoEffect ==
    \A data \in DecoderFrames :
        MustReject(data)
        => mgr_send(Cur, "PH_DATA_IND", 0, data) = [ret |-> "EINVAL", S |-> {Cur}]

\* a session is requesting; the assignment that would complete it is
\* rejected for its management entity id and for its length
C12_Witness ==
    \E i \in Sessions :
        /\ layer2[i].state = ST_TEI_IDREQ
        /\ LET good == NetFrame(ID_ASSIGNED, layer2[i].ri, 70)
           IN  /\ \E s \in mgr_send(Cur, "PH_DATA_IND", 0, good).S :
                     s.layer2[i].state = ST_TEI_NOP
               /\ mgr_send(Cur, "PH_DATA_IND", 0, [good EXCEPT ![4] = 0]).ret = "EINVAL"
               /\ mgr_send(Cur, "PH_DATA_IND", 0, SubSeq(good, 1, 7)).S = {Cur}

\* the events of the TEI state machine
TeiEvents ==
    {"EV_IDREQ", "EV_ASSIGN", "EV_ASSIGN_REQ", "EV_DENIED", "EV_CHKREQ",
     "EV_REMOVE", "EV_VERIFY", "EV_TIMER"}

\* the (state, event) pairs the specification's transition table lists
Listed(st, ev) ==
    \/ st = ST_TEI_NOP /\ ev \in {"EV_IDREQ", "EV_ASSIGN_REQ", "EV_ASSIGN",
                                  "EV_VERIFY", "EV_REMOVE", "EV_CHKREQ"}
    \/ st = ST_TEI_IDREQ /\ ev \in {"EV_TIMER", "EV_ASSIGN", "EV_DENIED"}
    \/ st = ST_TEI_IDVERIFY /\ ev \in {"EV_TIMER", "EV_REMOVE", "EV_CHKREQ"}

\* the event arguments: &data[4] of the inbound frames
EventArgs == {SubSeq(data, 5, 8) : data \in GoodFrames}

(* C13: an event delivered to a session in a state for which the transition
   table lists no handler changes nothing: the session (state, ri, nval,
   timer, tei), every other session, the queue and the flow-control state
   are unchanged and no frame, hand-off or notification results.  The same
   holds for the owner's MDL_ASSIGN_IND and MDL_ERROR_IND on a dynamic entity
   whose session is not Idle. *)
C13_UnlistedEventIgnored ==
    \A i \in Sessions :
        /\ \A ev \in TeiEvents : \A dp \in EventArgs :
              ~Listed(layer2[i].state, ev)
              => mISDN_FsmEvent(Cur, i, ev, dp) = {Cur}
        /\ (~layer2[i].fixed /\ layer2[i].state # ST_TEI_NOP)
           => /\ l2_tei(Cur, i, "MDL_ASSIGN_IND") = {Cur}
              /\ l2_tei(Cur, i, "MDL_ERROR_IND") = {Cur}

\* a session is verifying an assigned TEI, and the owner's error indication
\* (EV_VERIFY) is ignored
C13_Witness ==
    \E i \in Sessions :
        /\ layer2[i].state = ST_TEI_IDVERIFY
        /\ layer2[i].tei = 70
        /\ ~layer2[i].fixed
        /\ l2_tei(Cur, i, "MDL_ERROR_IND") = {Cur}
        /\ mISDN_FsmEvent(Cur, i, "EV_ASSIGN", SubSeq(NetFrame(ID_ASSIGNED, 257, 70), 5, 8)) = {Cur}

DeniedFrames == {NetFrame(ID_DENIED, ri, tei) : ri \in RiVals, tei \in TeiVals}

(* C14: ID_DENIED reaching a session in ST_TEI_IDREQ changes nothing: the
   session keeps its state, ri, nval and pending timer, nothing is sent and
   no notification is raised, whatever ri and tei the frame carries; the
   frame as a whole is accepted by a terminal-side manager and leaves every
   session and the queue as they were. *)
C14_DeniedIgnored ==
    \A i \in Sessions :
        layer2[i].state = ST_TEI_IDREQ
        => \A data \in DeniedFrames :
             /\ mISDN_FsmEvent(Cur, i, "EV_DENIED", SubSeq(data, 5, 8)) = {Cur}
             /\ layer2[i].timer
             /\ ~optNet
                => mgr_send(Cur, "PH_DATA_IND", 0, data) = [ret |-> "0", S |-> {Cur}]

\* a receiving session is in its second request interval when the denial
\* of its own reference value arrives
C14_Witness ==
    \E i \in Sessions :
        /\ layer2[i].state = ST_TEI_IDREQ
        /\ Receives(layer2[i])
        /\ layer2[i].nval = 2
        /\ ~optNet
        /\ mgr_send(Cur, "PH_DATA_IND", 0,
                    NetFrame(ID_DENIED, layer2[i].ri, GROUP_TEI)).S = {Cur}

----------------------------------------------------------------------------
(* Fair timers: every pending timer expires unless it is deleted.  The
   exploration keeps in reserve the ids a running episode can still ask
   for, so that an expiry always finds the id of the frame it resends. *)

RECURSIVE Reserved(_, _)
Reserved(s, i) ==
    IF i > Len(s.layer2) THEN 0
    ELSE (IF s.layer2[i].state # ST_TEI_NOP /\ s.layer2[i].nval > 0
          THEN s.layer2[i].nval - 1 ELSE 0) + Reserved(s, i + 1)

LiveBound == (nextid - 1) + Reserved(Cur, 1) + 2 * Len(layer2) <= LiveWork

LiveNext ==
    \/ PhDataInd /\ LiveBound'
    \/ PhDataCnf /\ LiveBound'
    \/ PhActivateInd /\ LiveBound'
    \/ PhDeactivateInd /\ LiveBound'
    \/ DlUnitDataReq /\ LiveBound'
    \/ CreateChannel /\ LiveBound'
    \/ ReleaseTei /\ LiveBound'
    \/ MdlAssignInd /\ LiveBound'
    \/ MdlErrorInd /\ LiveBound'
    \/ TimerExpired /\ LiveBound'

LiveSpec ==
    /\ Init
    /\ [][LiveNext]_vars
    /\ \A i \in 1 .. MaxWork \div 2 : WF_vars(TimerExpiredAt(i) /\ LiveBound')

\* the retry counter of a running episode is determined by the expiries the
\* episode has seen: 3 minus them in ST_TEI_IDREQ, 2 minus them in
\* ST_TEI_IDVERIFY, and it is never 0 between two steps
RetriesCounted ==
    \A i \in Sessions :
        /\ layer2[i].state = ST_TEI_IDREQ
           => (layer2[i].exp \in 0 .. 2 /\ layer2[i].nval = 3 - layer2[i].exp)
        /\ layer2[i].state = ST_TEI_IDVERIFY
           => (layer2[i].exp \in 0 .. 1 /\ layer2[i].nval = 2 - layer2[i].exp)

\* an inbound frame leaves a busy session as it is, retry counter included,
\* or returns it to Idle
FramesKeepRetries ==
    \A i \in Sessions : \A data \in InFrames :
        Busy(layer2[i])
        => \A s \in mgr_send(Cur, "PH_DATA_IND", 0, data).S :
             \/ s.layer2[i].state = ST_TEI_NOP
             \/ /\ SameSession(s.layer2[i], layer2[i])
                /\ s.layer2[i].exp = layer2[i].exp

(* C15: with fair timers, a session that is in ST_TEI_IDREQ or
   ST_TEI_IDVERIFY eventually is Idle again (or its entity is released),
   whatever frames and requests arrive in between; an ST_TEI_IDREQ episode
   sees at most 3 expiries and an ST_TEI_IDVERIFY episode at most 2, the
   retry counter being 3 (or 2) minus the expiries seen, and no inbound frame
   changes the retry counter of a session it leaves busy. *)
C15_BusyLeadsToIdle ==
    /\ [](RetriesCounted /\ FramesKeepRetries)
    /\ \A i \in 1 .. MaxWork \div 2 :
          (i <= Len(layer2) /\ Busy(layer2[i]))
          ~> (i > Len(layer2) \/ layer2[i].state = ST_TEI_NOP)

\* the last expiry of each kind of episode is due: the third of a request,
\* or the second of a verification
C15_Witness ==
    \E i \in Sessions :
        /\ layer2[i].timer
        /\ layer2[i].nval = 1
        /\ \/ layer2[i].state = ST_TEI_IDREQ /\ layer2[i].exp = 2
           \/ layer2[i].state = ST_TEI_IDVERIFY /\ layer2[i].exp = 1
        /\ \A s \in FsmExpireTimer(Cur, i) : s.layer2[i].state = ST_TEI_NOP

----------------------------------------------------------------------------
(* The send queue *)

\* the next frame a handler would pass to mgr_send_down
NextSkb == [id |-> new_id(Cur).id, data |-> TeiFrame(optNet, ID_CHK_RES, 257, 5)]

(* C16: mgr_send_down appends the frame to the tail of the send queue; with
   the link inactive it raises one PH_ACTIVATE_REQ and hands nothing over;
   with the link active and MGR_PH_NOTREADY clear the head of the queue, the
   frames queued before the new one coming first, is handed to the lower
   channel in the same step; with the link active and MGR_PH_NOTREADY set
   nothing is handed over and nothing is requested. *)
C16_EnqueueAppends ==
    LET q == Append(sendq, NextSkb)
        S == mgr_send_down(Cur, NextSkb)
    IN  \A s \in S :
          /\ s.enq = <<NextSkb>>
          /\ IF ~active
             THEN /\ s.sendq = q
                  /\ s.actreq = 1
                  /\ s.handed = <<>>
             ELSE IF notready
             THEN /\ s.sendq = q
                  /\ s.actreq = 0
                  /\ s.handed = <<>>
             ELSE /\ s.sendq = Tail(q)
                  /\ s.actreq = 0
                  /\ Len(s.handed) = 1
                  /\ s.handed[1].id = Head(q).id
                  /\ s.handed[1].data = Head(q).data

\* the link is active, nothing awaits a confirm and a frame is left in the
\* queue: the enqueue hands that older frame over, not the new one
C16_Witness ==
    /\ active /\ ~notready
    /\ sendq # <<>>
    /\ \E s \in mgr_send_down(Cur, NextSkb) :
          /\ s.handed[1].id = Head(sendq).id
          /\ s.sendq = Append(Tail(sendq), NextSkb)

\* a hand-off of the queue head that the lower channel rejected: the frame
\* is gone, the rest of the queue is in place and untried, the flags are
\* clear
Dropped(s) ==
    /\ Len(s.handed) = 1
    /\ s.handed[1].id = Head(sendq).id
    /\ s.sendq = Tail(sendq)
    /\ \A k \in 1 .. Len(s.sendq) : s.sendq[k].id # Head(sendq).id
    /\ Head(sendq).id \notin s.inflight
    /\ ~s.notready
    /\ s.lastid = MISDN_ID_NONE

(* C17: when the lower channel rejects a hand-off, in do_send (reached from
   PH_ACTIVATE_IND or an enqueue) or in the chained send of do_ack, that one
   frame is dropped and not queued again, MGR_PH_NOTREADY is cleared and
   lastid is MISDN_ID_NONE; the frames behind it stay queued in order and
   are not tried by that operation; afterwards no confirm sends anything,
   and the next PH_ACTIVATE_IND or enqueue hands the new queue head over. *)
C17_RejectedFrameDropped ==
    /\ (sendq # <<>> /\ ~notready)
       => \A s \in mgr_send(Cur, "PH_ACTIVATE_IND", 0, <<>>).S :
            /\ Len(s.handed) = 1
            /\ ~s.handed[1].ok => Dropped(s)
    /\ (sendq # <<>> /\ notready /\ active)
       => \A s \in mgr_send(Cur, "PH_DATA_CNF", lastid, <<>>).S :
            /\ Len(s.handed) = 1
            /\ ~s.handed[1].ok => Dropped(s)
    /\ (sendq # <<>> /\ ~notready /\ active)
       => /\ \A id \in AckIds : mgr_send(Cur, "PH_DATA_CNF", id, <<>>).S = {Cur}
          /\ \A s \in mgr_send_down(Cur, NextSkb) :
               Len(s.handed) = 1 /\ s.handed[1].id = Head(sendq).id

\* two frames wait behind the one in flight; its confirm chains the next
\* hand-off, which the lower channel rejects
C17_Witness ==
    /\ active /\ notready
    /\ Len(sendq) = 2
    /\ \E s \in mgr_send(Cur, "PH_DATA_CNF", lastid, <<>>).S :
          /\ ~s.handed[1].ok
          /\ Dropped(s)
          /\ Len(s.sendq) = 1

(* C18: PH_DEACTIVATE_IND clears the link flag and nothing else, the send
   queue keeping its frames and their order; frames enqueued while the link
   is inactive are appended; PH_ACTIVATE_IND arriving while no frame awaits
   a confirm hands the queue head over and leaves MGR_PH_NOTREADY set when
   the lower channel takes it; PH_ACTIVATE_IND arriving while a frame awaits
   a confirm hands nothing over and leaves the queue as it is. *)
C18_DeactivationKeepsQueue ==
    /\ mgr_send(Cur, "PH_DEACTIVATE_IND", 0, <<>>).S = {[Cur EXCEPT !.active = FALSE]}
    /\ ~active
       => \A s \in mgr_send_down(Cur, NextSkb) :
            s.sendq = Append(sendq, NextSkb) /\ s.handed = <<>>
    /\ LET S == mgr_send(Cur, "PH_ACTIVATE_IND", 0, <<>>).S
       IN  IF notready \/ sendq = <<>>
           THEN S = {[Cur EXCEPT !.active = TRUE]}
           ELSE /\ \E s \in S : Len(s.handed) = 1 /\ s.handed[1].ok
                /\ \A s \in S :
                     /\ s.active
                     /\ Len(s.handed) = 1
                     /\ s.handed[1].id = Head(sendq).id
                     /\ s.handed[1].data = Head(sendq).data
                     /\ s.sendq = Tail(sendq)
                     /\ s.handed[1].ok => (s.notready /\ s.lastid = Head(sendq).id)

\* the link went down after a frame was sent and confirmed; two frames
\* queued since then wait for the activation, which sends the first
C18_Witness ==
    /\ ~active /\ ~notready
    /\ nextid = 4
    /\ Len(sendq) = 2
    /\ sendq[1].id = MkId(2)
    /\ \E s \in mgr_send(Cur, "PH_ACTIVATE_IND", 0, <<>>).S :
          /\ s.notready
          /\ s.lastid = MkId(2)
          /\ Len(s.sendq) = 1

----------------------------------------------------------------------------
(* The frame codec exercised alone: a frame is built as put_tei_msg builds
   it and given to the ph_data_ind of a manager whose role takes the
   message type. *)

\* reference values around the octet boundaries of the 16-bit field
CodecRiVals == {0, 1, 255, 256, 257, 32767, 32768, 65280, 65535}

CodecTeiVals == 0 .. GROUP_TEI

CodecInit ==
    /\ MgrInit
    /\ probe \in [kind : {"drawn"}, net : BOOLEAN, mt : ID_REQUEST .. ID_VERIFY,
                  ri : CodecRiVals, tei : CodecTeiVals]
    /\ optNet <=> probe.mt \in {ID_REQUEST, ID_CHK_RES, ID_VERIFY}
    /\ optUser <=> ~optNet

Encode ==
    /\ probe.kind = "drawn"
    /\ probe' = [kind |-> "encoded", net |-> probe.net, mt |-> probe.mt,
                 ri |-> probe.ri, tei |-> probe.tei,
                 data |-> TeiFrame(probe.net, probe.mt, probe.ri, probe.tei)]
    /\ UNCHANGED <<optNet, optUser, layer2, active, notready, lastid, sendq,
                   nextid, inflight, orphan>>

Decode ==
    /\ probe.kind = "encoded"
    /\ LET r == mgr_send(Cur, "PH_DATA_IND", 0, probe.data)
           dp == SubSeq(probe.data, 5, Len(probe.data))
       IN  probe' = [kind |-> "decoded", net |-> probe.net, mt |-> probe.mt,
                     ri |-> probe.ri, tei |-> probe.tei, data |-> probe.data,
                     ret |-> r.ret, outmt |-> probe.data[7],
                     outri |-> DpRi(dp), outtei |-> DpTei(dp)]
    /\ UNCHANGED <<optNet, optUser, layer2, active, notready, lastid, sendq,
                   nextid, inflight, orphan>>

CodecNext == Encode \/ Decode

CodecSpec == CodecInit /\ [][CodecNext]_vars

(* C19: for every message type ID_REQUEST .. ID_VERIFY, every reference
   value, every tei in 0 .. 127 and either command bit, the frame put_tei_msg
   builds has 8 octets, is accepted by ph_data_ind, and the message type
   (octet 6), the reference value (octets 4 and 5, high octet first) and the
   tei (octet 7 shifted right by one) read from it are the ones encoded. *)
C19_CodecRoundTrip ==
    /\ probe.kind = "encoded" => Len(probe.data) = 8
    /\ probe.kind = "decoded"
       => /\ probe.ret = "0"
          /\ probe.outmt = probe.mt
          /\ probe.outri = probe.ri
          /\ probe.outtei = probe.tei

\* ID_VERIFY with the largest reference value and the largest assignable
\* tei went through the codec
C19_Witness ==
    /\ probe.kind = "decoded"
    /\ probe.mt = ID_VERIFY
    /\ probe.ri = 65535
    /\ probe.tei = 126
    /\ probe.outri = 65535
    /\ probe.outtei = 126

----------------------------------------------------------------------------
(* The id counter exercised alone: new_id called again and again on the
   manager mISDN_create_manager returned. *)

IdInit ==
    /\ MgrInit
    /\ probe = [kind |-> "id", calls |-> 0]

NewId ==
    /\ probe.kind = "id"
    /\ LET r == new_id(Cur)
       IN  /\ nextid' = r.s.nextid
           /\ probe' = [kind |-> "id", calls |-> 1, seq |-> nextid, id |-> r.id]
    /\ UNCHANGED <<optNet, optUser, layer2, active, notready, lastid, sendq,
                   inflight, orphan>>

IdSpec == IdInit /\ [][NewId]_vars

(* C20 as stated: the counter held between two new_id calls lies in
   [1, 0x7fff) and every id is built from a counter value in [1, 0x7fff). *)
C20_Original ==
    /\ nextid \in 1 .. IdWrap - 1
    /\ (probe.kind = "id" /\ probe.calls > 0) => probe.seq \in 1 .. IdWrap - 1

(* C20 amended: the counter held between two new_id calls lies in
   [1, 0x7fff], 0x7fff included; each call builds its id from the value the
   counter held, (value << 16) | (GROUP_TEI << 8) | TEI_SAPI, and leaves the
   counter one larger, except that the call that uses 0x7fff leaves it 1. *)
C20_IdRange ==
    /\ nextid \in 1 .. IdWrap
    /\ (probe.kind = "id" /\ probe.calls > 0)
       => /\ probe.seq \in 1 .. IdWrap
          /\ probe.id = probe.seq * 65536 + GROUP_TEI * 256 + TEI_SAPI
          /\ nextid = IF probe.seq = IdWrap THEN 1 ELSE probe.seq + 1

\* the call that used 0x7fff: the counter is back at 1
C20_Witness ==
    /\ probe.kind = "id" /\ probe.calls > 0
    /\ probe.seq = IdWrap
    /\ probe.id = MkId(IdWrap)
    /\ nextid = 1

----------------------------------------------------------------------------
(* The registry *)

\* requested TEIs at and around the limits create_teimgr tests
RequestTeiVals == {0, 5, 63, 64, 70, 126, 127, 128, 200}

\* the requests the specification says createEntity refuses
MustRefuse(protocol, sapi, tei) ==
    \/ sapi # 0
    \/ tei > 127
    \/ optNet /\ protocol = ISDN_P_LAPD_TE
    \/ ~optNet /\ protocol = ISDN_P_LAPD_NT
    \/ ~optNet /\ tei \in 64 .. 126

(* C21: CREATE_CHANNEL fails and leaves the registry, every session and the
   queue unchanged when sapi is not 0, when the TEI is above 127, when a
   network-side manager is asked for ISDN_P_LAPD_TE, when a terminal-side
   manager is asked for ISDN_P_LAPD_NT or for a TEI in 64..126; any other
   request appends exactly one entity to the registry, with the requested
   TEI, its session Idle and no timer pending, and changes nothing else. *)
C21_CreateEntity ==
    (optNet # optUser)
    => \A protocol \in Protocols, sapi \in SapiVals, tei \in RequestTeiVals :
         LET r == mgr_ctrl(Cur, protocol, sapi, tei)
         IN  IF MustRefuse(protocol, sapi, tei)
             THEN r.ret # "0" /\ r.s = Cur
             ELSE /\ r.ret = "0"
                  /\ Len(r.s.layer2) = Len(layer2) + 1
                  /\ SubSeq(r.s.layer2, 1, Len(layer2)) = layer2
                  /\ [r.s EXCEPT !.layer2 = layer2] = Cur
                  /\ LET e == r.s.layer2[Len(layer2) + 1]
                     IN  /\ e.state = ST_TEI_NOP
                         /\ ~e.timer
                         /\ e.tei = tei
                         /\ e.sapi = 0

\* an entity is registered and busy on a terminal-side manager; a request
\* for TEI 70 is refused and one for a dynamic TEI is granted
C21_Witness ==
    /\ optUser /\ ~optNet
    /\ \E i \in Sessions : Busy(layer2[i])
    /\ mgr_ctrl(Cur, ISDN_P_LAPD_TE, 0, 70).ret = "EINVAL"
    /\ mgr_ctrl(Cur, ISDN_P_LAPD_TE, 0, GROUP_TEI).ret = "0"
    /\ Len(mgr_ctrl(Cur, ISDN_P_LAPD_TE, 0, GROUP_TEI).s.layer2) = Len(layer2) + 1

\* the registered entities with sapi 0 that hold TEI t, t not the group TEI
Holders(t) ==
    {k \in Sessions : layer2[k].sapi = 0 /\ layer2[k].tei # GROUP_TEI /\ layer2[k].tei = t}

(* C22 as stated: for every t in 0..127 findtei(t) returns an entity if and
   only if a registered entity has sapi 0, a tei other than GROUP_TEI and
   tei = t. *)
C22_Original ==
    \A t \in 0 .. GROUP_TEI : (findtei(Cur, t) # 0) <=> (Holders(t) # {})

(* C22 amended: for every t in 0..127 findtei(t) returns an entity if and
   only if t is in 1..126 and a registered entity with sapi 0 has tei = t;
   it then returns the first such entity of the list; for t = 0 and for
   t = GROUP_TEI it returns none, whatever the registry holds. *)
C22_FindTei ==
    \A t \in 0 .. GROUP_TEI :
        LET l2 == findtei(Cur, t)
        IN  /\ (l2 # 0) <=> (t \in 1 .. GROUP_TEI - 1 /\ Holders(t) # {})
            /\ l2 # 0 => (l2 \in Holders(t) /\ \A k \in Holders(t) : l2 <= k)
            /\ t \in {0, GROUP_TEI} => l2 = 0

\* a point-to-point entity (TEI 0), an entity holding TEI 5 and an
\* unassigned one are registered: only TEI 5 is found
C22_Witness ==
    /\ Len(layer2) = 3
    /\ layer2[1].tei = 0
    /\ layer2[2].tei = 5
    /\ layer2[3].tei = GROUP_TEI
    /\ findtei(Cur, 0) = 0
    /\ findtei(Cur, 5) = 2
    /\ findtei(Cur, GROUP_TEI) = 0

\* the sessions a broadcast ID_REMOVE or ID_CHK_REQ concerns: they take
\* inbound frames, are Idle or verifying, and hold a TEI
Concerned ==
    {i \in Sessions : /\ Receives(layer2[i])
                      /\ layer2[i].state \in {ST_TEI_NOP, ST_TEI_IDVERIFY}
                      /\ layer2[i].tei # GROUP_TEI}

\* the concerned sessions before session i in the list
ConcernedBefore(i) == {j \in Concerned : j < i}

(* C23: an accepted frame other than ID_REQUEST reaches every registered
   session once, whatever it did to the sessions before: a broadcast
   ID_REMOVE raises exactly one MDL_REMOVE_REQ for every concerned session
   and none for the others; a broadcast ID_CHK_REQ is answered with exactly
   one ID_CHK_RES per concerned session, in list order and with that
   session's TEI; the registry keeps its entities; on a network-side manager
   the accepted types ID_CHK_RES and ID_VERIFY reach every session and none
   reacts. *)
C23_FanOutReachesAll ==
    /\ ~optNet
       => /\ \A s \in mgr_send(Cur, "PH_DATA_IND", 0,
                               NetFrame(ID_REMOVE, 257, GROUP_TEI)).S :
                /\ Len(s.layer2) = Len(layer2)
                /\ \A i \in Sessions :
                     IF i \in Concerned
                     THEN /\ Cardinality(NotesOf(s, i, "MDL_REMOVE_REQ")) = 1
                          /\ s.layer2[i].state = ST_TEI_NOP
                          /\ ~s.layer2[i].timer
                     ELSE /\ NotesOf(s, i, "MDL_REMOVE_REQ") = {}
                          /\ SameSession(s.layer2[i], layer2[i])
          /\ \A s \in mgr_send(Cur, "PH_DATA_IND", 0,
                               NetFrame(ID_CHK_REQ, 257, GROUP_TEI)).S :
                /\ Len(s.layer2) = Len(layer2)
                /\ Len(s.enq) = Cardinality(Concerned)
                /\ \A i \in Concerned :
                     LET k == Cardinality(ConcernedBefore(i)) + 1
                     IN  /\ s.enq[k].data[7] = ID_CHK_RES
                         /\ FrameTei(s.enq[k].data) = layer2[i].tei
                         /\ s.layer2[i].state = ST_TEI_NOP
                /\ \A i \in Sessions \ Concerned :
                     SameSession(s.layer2[i], layer2[i])
    /\ optNet
       => \A mt \in {ID_CHK_RES, ID_VERIFY} :
            mgr_send(Cur, "PH_DATA_IND", 0, UserFrame(mt, 257, 70))
              = [ret |-> "0", S |-> {Cur}]

\* two dynamic entities hold TEIs; the broadcast ID_REMOVE removes both
C23_Witness ==
    /\ ~optNet
    /\ Len(layer2) = 2
    /\ Concerned = {1, 2}
    /\ \E s \in mgr_send(Cur, "PH_DATA_IND", 0,
                         NetFrame(ID_REMOVE, 257, GROUP_TEI)).S :
          /\ NotesOf(s, 1, "MDL_REMOVE_REQ") # {}
          /\ NotesOf(s, 2, "MDL_REMOVE_REQ") # {}

\* where entity j of the registry stands once entity i is released
Shifted(i, j) == IF j < i THEN j ELSE j - 1

\* the entities other than i that findtei can return for TEI t
OtherHolders(i, t) == {j \in Holders(t) \ {i} : t \in 1 .. GROUP_TEI - 1}

(* C24: release_tei on any registered entity deletes the session's timer
   before the session is freed, so that no expiry is pending for it, and
   takes the entity out of the list: the other entities keep their order
   and their sessions, timers included; the queue, the flow-control fields
   and the identifier counter are unchanged; findtei returns, for every
   TEI, the first of the other holders or nothing; a later broadcast
   ID_REMOVE reaches the remaining entities only. *)
C24_ReleaseRemoves ==
    \A i \in Sessions :
        LET s == release_tei(Cur, i)
        IN  /\ ~s.orphan
            /\ Len(s.layer2) = Len(layer2) - 1
            /\ \A j \in Sessions \ {i} : s.layer2[Shifted(i, j)] = layer2[j]
            /\ [s EXCEPT !.layer2 = layer2] = Cur
            /\ \A t \in 0 .. GROUP_TEI :
                 IF OtherHolders(i, t) = {}
                 THEN findtei(s, t) = 0
                 ELSE \E j \in OtherHolders(i, t) :
                        /\ findtei(s, t) = Shifted(i, j)
                        /\ \A k \in OtherHolders(i, t) : j <= k
            /\ ~optNet
               => \A u \in mgr_send(s, "PH_DATA_IND", 0,
                                    NetFrame(ID_REMOVE, 257, GROUP_TEI)).S :
                    /\ Len(u.layer2) = Len(layer2) - 1
                    /\ Len(u.notes)
                         = Cardinality(Concerned \ {i})
                    /\ \A k \in 1 .. Len(u.notes) : u.notes[k].l2 \in 1 .. Len(u.layer2)

\* the first of two entities is released while its timer is pending; the
\* second one holds a TEI that findtei still finds
C24_Witness ==
    /\ Len(layer2) = 2
    /\ layer2[1].timer
    /\ layer2[2].tei \in 1 .. GROUP_TEI - 1
    /\ findtei(release_tei(Cur, 1), layer2[2].tei) = 1

----------------------------------------------------------------------------
(* The lock of the entity list. Callers on different processors run
   create_teimgr, release_tei, ph_data_ind and findtei against one manager;
   each is followed through its lock, list and unlock steps. The list is
   kept by its length; where a caller stands is its pc. *)

\* the callers
Callers == 1 .. 3

\* calls one caller makes
MaxCalls == 2

\* entities the list holds at most
MaxList == 2

\* mutant of read_lock: a reader waits behind a waiting writer
read_lock_Fair(p, t) ==
    IF p.wr = 0 /\ \A u \in Callers : p.pc[u] \notin {"c_wlock", "r_wlock"}
    THEN {[p EXCEPT !.rd[t] = @ + 1]}
    ELSE {}

\* rwlock: read_lock gets in whenever no writer holds the lock, also while
\* a writer waits and also when the caller already holds it for reading
read_lock(p, t) ==
    IF p.wr = 0 THEN {[p EXCEPT !.rd[t] = @ + 1]} ELSE {}

read_unlock(p, t) == [p EXCEPT !.rd[t] = @ - 1]

\* rwlock: write_lock gets in when nobody holds the lock
write_lock(p, t) ==
    IF p.wr = 0 /\ \A u \in Callers : p.rd[u] = 0
    THEN {[p EXCEPT !.wr = t]}
    ELSE {}

write_unlock(p, t) == [p EXCEPT !.wr = 0]

Goto(p, t, label) == [p EXCEPT !.pc[t] = label]

Return(p, t) == [p EXCEPT !.pc[t] = "idle", !.calls[t] = @ + 1]

LockInit ==
    /\ MgrInit
    /\ probe = [kind |-> "lock", n |-> 0, wr |-> 0,
                rd |-> [t \in Callers |-> 0],
                pc |-> [t \in Callers |-> "idle"],
                pos |-> [t \in Callers |-> 0],
                calls |-> [t \in Callers |-> 0]]

LockStep(p) ==
    /\ probe' = p
    /\ UNCHANGED <<optNet, optUser, layer2, active, notready, lastid, sendq,
                   nextid, inflight, orphan>>

Idle(t) == probe.kind = "lock" /\ probe.pc[t] = "idle" /\ probe.calls[t] < MaxCalls

At(t, label) == probe.kind = "lock" /\ probe.pc[t] = label

\* create_teimgr up to its write_lock
CallCreate ==
    \E t \in Callers :
        /\ Idle(t)
        /\ probe.n + Cardinality({u \in Callers :
                                    probe.pc[u] \in {"c_wlock", "c_add"}}) < MaxList
        /\ LockStep(Goto(probe, t, "c_wlock"))

\* release_tei up to its write_lock, on an entity nobody else releases
CallRelease ==
    \E t \in Callers :
        /\ Idle(t)
        /\ probe.n - Cardinality({u \in Callers :
                                    probe.pc[u] \in {"r_wlock", "r_del"}}) > 0
        /\ LockStep(Goto(probe, t, "r_wlock"))

\* ph_data_ind up to the read_lock of its loop
CallDispatch ==
    \E t \in Callers : Idle(t) /\ LockStep(Goto(probe, t, "d_rlock"))

\* findtei called from outside the loop of ph_data_ind
CallFindtei ==
    \E t \in Callers : Idle(t) /\ LockStep(Goto(probe, t, "f_rlock"))

CreateLock ==
    \E t \in Callers :
        /\ At(t, "c_wlock")
        /\ \E p \in write_lock(probe, t) : LockStep(Goto(p, t, "c_add"))

CreateAdd ==
    \E t \in Callers :
        /\ At(t, "c_add")
        /\ LockStep(Goto([probe EXCEPT !.n = @ + 1], t, "c_unlock"))

CreateUnlock ==
    \E t \in Callers :
        /\ At(t, "c_unlock")
        /\ LockStep(Return(write_unlock(probe, t), t))

ReleaseLock ==
    \E t \in Callers :
        /\ At(t, "r_wlock")
        /\ \E p \in write_lock(probe, t) : LockStep(Goto(p, t, "r_del"))

ReleaseDel ==
    \E t \in Callers :
        /\ At(t, "r_del")
        /\ LockStep(Goto([probe EXCEPT !.n = @ - 1], t, "r_unlock"))

ReleaseUnlock ==
    \E t \in Callers :
        /\ At(t, "r_unlock")
        /\ LockStep(Return(write_unlock(probe, t), t))

DispatchLock ==
    \E t \in Callers :
        /\ At(t, "d_rlock")
        /\ \E p \in read_lock(probe, t) :
              LockStep(Goto([p EXCEPT !.pos[t] = 1], t, "d_iter"))

\* one turn of the loop: tei_ph_data_ind on the entity at pos, with a
\* handler that does not look up a TEI
DispatchHandler ==
    \E t \in Callers :
        /\ At(t, "d_iter")
        /\ probe.pos[t] <= probe.n
        /\ LockStep([probe EXCEPT !.pos[t] = @ + 1])

\* one turn of the loop with tei_id_assign or tei_id_test_dup, which call
\* findtei
DispatchHandlerFindtei ==
    \E t \in Callers :
        /\ At(t, "d_iter")
        /\ probe.pos[t] <= probe.n
        /\ LockStep(Goto(probe, t, "h_rlock"))

NestedLock ==
    \E t \in Callers :
        /\ At(t, "h_rlock")
        /\ \E p \in read_lock(probe, t) : LockStep(Goto(p, t, "h_iter"))

NestedWalk ==
    \E t \in Callers : At(t, "h_iter") /\ LockStep(Goto(probe, t, "h_unlock"))

NestedUnlock ==
    \E t \in Callers :
        /\ At(t, "h_unlock")
        /\ LockStep(Goto([read_unlock(probe, t) EXCEPT !.pos[t] = @ + 1], t, "d_iter"))

DispatchEnd ==
    \E t \in Callers :
        /\ At(t, "d_iter")
        /\ probe.pos[t] > probe.n
        /\ LockStep(Goto(probe, t, "d_unlock"))

DispatchUnlock ==
    \E t \in Callers :
        /\ At(t, "d_unlock")
        /\ LockStep(Return([read_unlock(probe, t) EXCEPT !.pos[t] = 0], t))

FindteiLock ==
    \E t \in Callers :
        /\ At(t, "f_rlock")
        /\ \E p \in read_lock(probe, t) : LockStep(Goto(p, t, "f_iter"))

FindteiWalk ==
    \E t \in Callers : At(t, "f_iter") /\ LockStep(Goto(probe, t, "f_unlock"))

FindteiUnlock ==
    \E t \in Callers :
        /\ At(t, "f_unlock")
        /\ LockStep(Return(read_unlock(probe, t), t))

LockNext ==
    \/ CallCreate
    \/ CallRelease
    \/ CallDispatch
    \/ CallFindtei
    \/ CreateLock
    \/ CreateAdd
    \/ CreateUnlock
    \/ ReleaseLock
    \/ ReleaseDel
    \/ ReleaseUnlock
    \/ DispatchLock
    \/ DispatchHandler
    \/ DispatchHandlerFindtei
    \/ NestedLock
    \/ NestedWalk
    \/ NestedUnlock
    \/ DispatchEnd
    \/ DispatchUnlock
    \/ FindteiLock
    \/ FindteiWalk
    \/ FindteiUnlock

LockSpec == LockInit /\ [][LockNext]_vars

\* caller t is inside a call and its next step can be taken
CanStep(t) ==
    CASE probe.pc[t] \in {"c_wlock", "r_wlock"} -> write_lock(probe, t) # {}
      [] probe.pc[t] \in {"d_rlock", "h_rlock", "f_rlock"} -> read_lock(probe, t) # {}
      [] probe.pc[t] = "idle" -> FALSE
      [] OTHER -> TRUE

Writing == {"c_add", "r_del"}

Reading == {"d_iter", "h_rlock", "h_iter", "h_unlock", "d_unlock", "f_iter", "f_unlock"}

(* C25: with callers running create_teimgr, release_tei, ph_data_ind and
   findtei against one manager at once, the list is changed only by the
   caller that holds the write lock, and then nobody reads or changes it
   besides; it is walked only by callers that hold the read lock, while no
   writer holds the lock; a caller that asks for the write lock holds no
   read lock, so no handler of the loop asks for it; and whenever some call
   is under way, some caller inside a call can take its next step, also
   when a handler of the loop is at the read_lock of findtei while the loop
   holds the read lock. *)
C25_LockDiscipline ==
    probe.kind = "lock"
    => /\ \A t \in Callers :
            /\ probe.pc[t] \in Writing \cup {"c_unlock", "r_unlock"}
               => /\ probe.wr = t
                  /\ \A u \in Callers : probe.rd[u] = 0
                  /\ \A u \in Callers \ {t} :
                        probe.pc[u] \notin Writing \cup Reading
            /\ probe.pc[t] \in Reading
               => probe.rd[t] >= 1 /\ probe.wr = 0
            /\ probe.pc[t] \in {"h_iter", "h_unlock"} => probe.rd[t] = 2
            /\ probe.pc[t] \in {"c_wlock", "r_wlock"} => probe.rd[t] = 0
       /\ (\E t \in Callers : probe.pc[t] # "idle")
          => \E t \in Callers : CanStep(t)

\* a handler of the loop has taken the read lock a second time while
\* another caller waits for the write lock and a third one walks the list
C25_Witness ==
    /\ probe.kind = "lock"
    /\ \E t, u, v \in Callers :
          /\ probe.pc[t] = "h_iter" /\ probe.rd[t] = 2
          /\ probe.pc[u] \in {"c_wlock", "r_wlock"}
          /\ probe.pc[v] = "f_iter"

----------------------------------------------------------------------------
(* Transitions of the Idle and the Verifying session *)

(* C26: MDL_ASSIGN_IND on an entity whose session is Idle and whose TEI is
   not GROUP_TEI sends no frame and leaves the session as it was: Idle, no
   timer, ri and nval unchanged; the queue and the other sessions are
   unchanged too; on an entity that is not fixed nothing at all changes. *)
C26_AssignedStartNoOp ==
    \A i \in Sessions :
        (layer2[i].state = ST_TEI_NOP /\ layer2[i].tei # GROUP_TEI)
        => /\ \A s \in l2_tei(Cur, i, "MDL_ASSIGN_IND") :
                /\ s.enq = <<>>
                /\ s.sendq = sendq
                /\ s.layer2[i].state = ST_TEI_NOP
                /\ ~s.layer2[i].timer
                /\ \A k \in Sessions : SameSession(s.layer2[k], layer2[k])
                /\ ~layer2[i].fixed => s = Cur
           /\ mISDN_FsmEvent(Cur, i, "EV_IDREQ", <<>>) = {Cur}

\* an entity that got its TEI by negotiation, with a reference value and a
\* retry count left from it, is asked to assign again
C26_Witness ==
    \E i \in Sessions :
        /\ layer2[i].state = ST_TEI_NOP
        /\ ~layer2[i].fixed
        /\ layer2[i].tei \notin {0, GROUP_TEI}
        /\ layer2[i].ri # 0
        /\ layer2[i].nval # 0
        /\ l2_tei(Cur, i, "MDL_ASSIGN_IND") = {Cur}

(* C27: EV_VERIFY on an Idle session, whatever TEI the entity holds,
   GROUP_TEI included, sends exactly one frame, ID_VERIFY with reference
   value 0 and the entity's TEI, leaves the session in ST_TEI_IDVERIFY with
   nval 2 and the timer armed, and changes neither tm->ri nor the TEI;
   MDL_ERROR_IND raises it on every entity that is not fixed. *)
C27_VerifyFromIdle ==
    \A i \in Sessions :
        layer2[i].state = ST_TEI_NOP
        => /\ \A s \in mISDN_FsmEvent(Cur, i, "EV_VERIFY", <<>>) :
                /\ Len(s.enq) = 1
                /\ s.enq[1].data[7] = ID_VERIFY
                /\ FrameRi(s.enq[1].data) = 0
                /\ FrameTei(s.enq[1].data) = layer2[i].tei
                /\ s.layer2[i].state = ST_TEI_IDVERIFY
                /\ s.layer2[i].nval = 2
                /\ s.layer2[i].timer
                /\ s.layer2[i].ri = layer2[i].ri
                /\ s.layer2[i].tei = layer2[i].tei
                /\ \A k \in Sessions \ {i} : s.layer2[k] = layer2[k]
           /\ mISDN_FsmEvent(Cur, i, "EV_VERIFY", <<>>) # {}
           /\ ~layer2[i].fixed
              => l2_tei(Cur, i, "MDL_ERROR_IND")
                   = mISDN_FsmEvent(Cur, i, "EV_VERIFY", <<>>)

\* an entity that still waits for a TEI after a failed negotiation, with a
\* reference value from it, reports a link error and verifies GROUP_TEI
C27_Witness ==
    \E i \in Sessions :
        /\ layer2[i].state = ST_TEI_NOP
        /\ ~layer2[i].fixed
        /\ layer2[i].tei = GROUP_TEI
        /\ layer2[i].ri # 0
        /\ \E s \in l2_tei(Cur, i, "MDL_ERROR_IND") :
              /\ s.layer2[i].state = ST_TEI_IDVERIFY
              /\ FrameTei(s.enq[1].data) = GROUP_TEI

\* the session is Idle or verifying
IdleOrVerifying(e) == e.state \in {ST_TEI_NOP, ST_TEI_IDVERIFY}

\* the entity holds a TEI and the frame names it or the group TEI
Addressed(e, data) ==
    /\ e.tei # GROUP_TEI
    /\ FrameTei(data) \in {GROUP_TEI, e.tei}

RemoveFrames == {NetFrame(ID_REMOVE, ri, tei) : ri \in RiVals, tei \in TeiVals}

ChkReqFrames == {NetFrame(ID_CHK_REQ, ri, tei) : ri \in RiVals, tei \in TeiVals}

(* C28: EV_REMOVE on a session that is Idle or verifying takes effect
   exactly when the entity holds a TEI and the frame names that TEI or
   GROUP_TEI: then the timer is deleted, the session is Idle, exactly one
   MDL_REMOVE_REQ goes to the entity and nothing is sent; in every other
   case nothing changes, so a verifying session still verifies with its
   timer pending and its nval. On a terminal-side manager the frame
   ID_REMOVE does the same to every session that takes inbound frames. *)
C28_RemoveIffAddressed ==
    \A i \in Sessions : \A data \in RemoveFrames :
        IdleOrVerifying(layer2[i])
        => LET S == mISDN_FsmEvent(Cur, i, "EV_REMOVE", SubSeq(data, 5, 8))
           IN  /\ S # {}
               /\ IF Addressed(layer2[i], data)
                  THEN \A s \in S :
                         /\ ~s.layer2[i].timer
                         /\ s.layer2[i].state = ST_TEI_NOP
                         /\ Cardinality(NotesOf(s, i, "MDL_REMOVE_REQ")) = 1
                         /\ Len(s.notes) = 1
                         /\ s.enq = <<>>
                         /\ s.layer2[i].ri = layer2[i].ri
                         /\ s.layer2[i].nval = layer2[i].nval
                         /\ \A k \in Sessions \ {i} : s.layer2[k] = layer2[k]
                  ELSE S = {Cur}
               /\ (~optNet /\ Receives(layer2[i]))
                  => \A s \in mgr_send(Cur, "PH_DATA_IND", 0, data).S :
                       IF Addressed(layer2[i], data)
                       THEN /\ ~s.layer2[i].timer
                            /\ s.layer2[i].state = ST_TEI_NOP
                            /\ Cardinality(NotesOf(s, i, "MDL_REMOVE_REQ")) = 1
                       ELSE /\ SameSession(s.layer2[i], layer2[i])
                            /\ NotesOf(s, i, "MDL_REMOVE_REQ") = {}

\* a verifying session with its timer pending is removed by a broadcast
\* ID_REMOVE and untouched by one that names another TEI
C28_Witness ==
    /\ ~optNet
    /\ \E i \in Sessions :
          /\ layer2[i].state = ST_TEI_IDVERIFY
          /\ layer2[i].timer
          /\ layer2[i].tei = 70
          /\ \E s \in mgr_send(Cur, "PH_DATA_IND", 0,
                               NetFrame(ID_REMOVE, 0, GROUP_TEI)).S :
                /\ s.layer2[i].state = ST_TEI_NOP
                /\ ~s.layer2[i].timer
                /\ NotesOf(s, i, "MDL_REMOVE_REQ") # {}
          /\ mgr_send(Cur, "PH_DATA_IND", 0, NetFrame(ID_REMOVE, 0, 5)).S = {Cur}

(* C29: EV_CHKREQ on a session that is Idle or verifying takes effect
   exactly when the entity holds a TEI and the frame names that TEI or
   GROUP_TEI: then exactly one frame is sent, ID_CHK_RES with the entity's
   own TEI and a reference value drawn for it, whatever tm->ri holds; the
   timer is deleted, the session is Idle, tm->ri and the TEI are unchanged
   and nothing goes to the entity; in every other case nothing is sent and
   nothing changes. *)
C29_CheckIffAddressed ==
    \A i \in Sessions : \A data \in ChkReqFrames :
        IdleOrVerifying(layer2[i])
        => LET S == mISDN_FsmEvent(Cur, i, "EV_CHKREQ", SubSeq(data, 5, 8))
           IN  /\ S # {}
               /\ IF Addressed(layer2[i], data)
                  THEN /\ \A s \in S :
                            /\ Len(s.enq) = 1
                            /\ s.enq[1].data[7] = ID_CHK_RES
                            /\ FrameTei(s.enq[1].data) = layer2[i].tei
                            /\ FrameTei(s.enq[1].data) # GROUP_TEI
                            /\ ~s.layer2[i].timer
                            /\ s.layer2[i].state = ST_TEI_NOP
                            /\ s.layer2[i].ri = layer2[i].ri
                            /\ s.layer2[i].tei = layer2[i].tei
                            /\ s.layer2[i].nval = layer2[i].nval
                            /\ s.notes = <<>>
                            /\ \A k \in Sessions \ {i} : s.layer2[k] = layer2[k]
                       /\ {FrameRi(s.enq[1].data) : s \in S} = RiVals
                  ELSE S = {Cur}

\* a verifying session with its timer pending and reference value 0
\* answers a broadcast ID_CHK_REQ with its own TEI and reference value 257
C29_Witness ==
    /\ ~optNet
    /\ \E i \in Sessions :
          /\ layer2[i].state = ST_TEI_IDVERIFY
          /\ layer2[i].timer
          /\ layer2[i].tei = 70
          /\ layer2[i].ri = 0
          /\ \E s \in mgr_send(Cur, "PH_DATA_IND", 0,
                               NetFrame(ID_CHK_REQ, 0, GROUP_TEI)).S :
                /\ s.layer2[i].state = ST_TEI_NOP
                /\ Len(s.enq) = 1
                /\ FrameTei(s.enq[1].data) = 70
                /\ FrameRi(s.enq[1].data) = 257

\* requested TEIs below 64: point-to-point, a fixed one, the largest fixed one
FixedTeiVals == {0, 5, 63}

\* what MDL_ASSIGN_IND and MDL_ERROR_IND do to the fixed entity i of s
FixedAnswers(s, i) ==
    /\ \A u \in l2_tei(s, i, "MDL_ASSIGN_IND") :
          /\ u.notes = <<[l2 |-> i, cmd |-> "MDL_ASSIGN_REQ", arg |-> s.layer2[i].tei]>>
          /\ u.enq = <<>>
          /\ u.sendq = s.sendq
          /\ u.layer2 = s.layer2
    /\ l2_tei(s, i, "MDL_ASSIGN_IND") # {}
    /\ l2_tei(s, i, "MDL_ERROR_IND") = {s}

(* C30: CREATE_CHANNEL with a TEI below 64, 0 included, registers a fixed
   entity whose session is Idle, with no timer pending and with the TEI
   asked for; MDL_ASSIGN_IND on a fixed entity is answered at once with one
   MDL_ASSIGN_REQ carrying the entity's own TEI: no frame is sent, no timer
   is armed and the session is as before, Idle when it was Idle;
   MDL_ERROR_IND on it changes nothing and raises no EV_VERIFY; and a fixed
   entity's session is never in ST_TEI_IDREQ. *)
C30_FixedNoNegotiation ==
    /\ \A protocol \in Protocols, tei \in FixedTeiVals :
          LET r == mgr_ctrl(Cur, protocol, 0, tei)
              j == Len(layer2) + 1
          IN  r.ret = "0"
              => /\ Len(r.s.layer2) = j
                 /\ r.s.layer2[j].fixed
                 /\ r.s.layer2[j].state = ST_TEI_NOP
                 /\ ~r.s.layer2[j].timer
                 /\ r.s.layer2[j].tei = tei
                 /\ FixedAnswers(r.s, j)
                 /\ \A u \in l2_tei(r.s, j, "MDL_ASSIGN_IND") :
                       u.layer2[j].state = ST_TEI_NOP /\ ~u.layer2[j].timer
    /\ \A i \in Sessions :
          layer2[i].fixed
          => /\ layer2[i].state # ST_TEI_IDREQ
             /\ FixedAnswers(Cur, i)

\* a point-to-point entity and a fixed one are registered, Idle, and the
\* owner of each gets its TEI back on MDL_ASSIGN_IND
C30_Witness ==
    \E i, k \in Sessions :
        /\ layer2[i].fixed /\ layer2[i].tei = 0 /\ layer2[i].state = ST_TEI_NOP
        /\ layer2[k].fixed /\ layer2[k].tei = 5 /\ layer2[k].state = ST_TEI_NOP
        /\ \E u \in l2_tei(Cur, i, "MDL_ASSIGN_IND") : u.notes[1].arg = 0
        /\ \E u \in l2_tei(Cur, k, "MDL_ASSIGN_IND") : u.notes[1].arg = 5
        /\ l2_tei(Cur, k, "MDL_ERROR_IND") = {Cur}

----------------------------------------------------------------------------
(* ID_ASSIGNED and the duplicate check *)

\* the sessions in ST_TEI_IDREQ that take inbound frames and hold the
\* reference value of the frame
Requesters(data) ==
    {j \in Sessions : /\ layer2[j].state = ST_TEI_IDREQ
                      /\ Receives(layer2[j])
                      /\ layer2[j].ri = FrameRi(data)}

(* C31: EV_ASSIGN on a session in ST_TEI_IDREQ, with a reference value
   other than tm->ri and a TEI no registered entity holds, changes nothing
   and emits nothing; the frame ID_ASSIGNED then leaves that session's
   state, ri, nval, timer and TEI as they were and produces nothing for it,
   and nothing at all when no requesting session holds the frame's
   reference value. *)
C31_StaleRiIgnored ==
    \A data \in AssignFrames : \A i \in Sessions :
        (/\ layer2[i].state = ST_TEI_IDREQ
         /\ FrameRi(data) # layer2[i].ri
         /\ Holders(FrameTei(data)) = {})
        => /\ mISDN_FsmEvent(Cur, i, "EV_ASSIGN", SubSeq(data, 5, 8)) = {Cur}
           /\ layer2[i].timer
           /\ (~optNet /\ Receives(layer2[i]))
              => \A s \in mgr_send(Cur, "PH_DATA_IND", 0, data).S :
                   /\ s.layer2[i] = layer2[i]
                   /\ \A k \in 1 .. Len(s.notes) : s.notes[k].l2 # i
                   /\ s.enq = <<>>
                   /\ Requesters(data) = {} => s = Cur

\* after a retry drew a new reference value, the answer to the first
\* request arrives with a free TEI
C31_Witness ==
    /\ ~optNet
    /\ \E i \in Sessions :
          /\ layer2[i].state = ST_TEI_IDREQ
          /\ layer2[i].tx = 2
          /\ layer2[i].ri = 257
          /\ layer2[i].nval = 2
          /\ Holders(70) = {}
          /\ mgr_send(Cur, "PH_DATA_IND", 0, NetFrame(ID_ASSIGNED, 0, 70))
               = [ret |-> "0", S |-> {Cur}]

\* the sessions in ST_TEI_IDREQ that take inbound frames
RequestingReceivers ==
    {j \in Sessions : layer2[j].state = ST_TEI_IDREQ /\ Receives(layer2[j])}

\* the Idle sessions that take inbound frames
IdleReceivers ==
    {j \in Sessions : layer2[j].state = ST_TEI_NOP /\ Receives(layer2[j])}

(* C32: EV_ASSIGN on a session in ST_TEI_IDREQ with a TEI that findtei
   finds held never completes the assignment, whatever the reference value:
   the session stays in ST_TEI_IDREQ with its timer, ri, nval and TEI; when
   the reference value differs from the holder's tm->ri exactly one
   MDL_ERROR_RSP goes to the holder's entity, no frame is sent and the
   holder's session is as before; when it equals it nothing happens. The
   frame ID_ASSIGNED does this once for every requesting session, and the
   holder's session changes in that dispatch only if an Idle session takes
   the frame as well. *)
C32_HeldTeiNotAssigned ==
    \A data \in AssignFrames : \A i \in Sessions :
        LET h == findtei(Cur, FrameTei(data))
        IN  (layer2[i].state = ST_TEI_IDREQ /\ h # 0)
            => /\ FrameTei(data) \in 1 .. GROUP_TEI - 1
               /\ layer2[i].timer
               /\ \A s \in mISDN_FsmEvent(Cur, i, "EV_ASSIGN", SubSeq(data, 5, 8)) :
                    /\ s.layer2 = layer2
                    /\ s.enq = <<>>
                    /\ s.sendq = sendq
                    /\ s.notes = IF FrameRi(data) # layer2[h].ri
                                 THEN <<[l2 |-> h, cmd |-> "MDL_ERROR_RSP", arg |-> 0]>>
                                 ELSE <<>>
               /\ mISDN_FsmEvent(Cur, i, "EV_ASSIGN", SubSeq(data, 5, 8)) # {}
               /\ (~optNet /\ Receives(layer2[i]))
                  => \A s \in mgr_send(Cur, "PH_DATA_IND", 0, data).S :
                       /\ s.layer2[i] = layer2[i]
                       /\ NotesOf(s, i, "MDL_ASSIGN_REQ") = {}
                       /\ Cardinality(NotesOf(s, h, "MDL_ERROR_RSP"))
                            = IF FrameRi(data) # layer2[h].ri
                              THEN Cardinality(RequestingReceivers)
                              ELSE 0
                       /\ IdleReceivers = {} => s.layer2 = layer2

\* a requesting session gets ID_ASSIGNED with its own reference value and
\* a TEI another entity holds under another reference value
C32_Witness ==
    /\ ~optNet
    /\ \E i, h \in Sessions :
          /\ layer2[i].state = ST_TEI_IDREQ
          /\ layer2[i].ri = 257
          /\ h # i
          /\ findtei(Cur, 5) = h
          /\ layer2[h].ri = 0
          /\ IdleReceivers = {}
          /\ \E s \in mgr_send(Cur, "PH_DATA_IND", 0, NetFrame(ID_ASSIGNED, 257, 5)).S :
                /\ s.layer2 = layer2
                /\ NotesOf(s, h, "MDL_ERROR_RSP") # {}

\* the entities of s that got their TEI from ID_ASSIGNED: on a terminal-side
\* manager create_teimgr gives an entity that is not fixed the TEI
\* GROUP_TEI, and only tei_id_assign gives it another one
Assigned(s) ==
    {k \in 1 .. Len(s.layer2) : ~s.layer2[k].fixed /\ s.layer2[k].tei # GROUP_TEI}

\* the entities a dispatch gave a TEI
Bound(s) ==
    {k \in 1 .. Len(s.layer2) : NotesOf(s, k, "MDL_ASSIGN_REQ") # {}}

(* C33: on a terminal-side manager no two entities that got their TEI from
   ID_ASSIGNED hold the same TEI of 1..126, in any reachable state; and one
   dispatch of ID_ASSIGNED with a TEI of 1..126 gives that TEI to at most
   one entity, to none when an entity held it before the dispatch, and
   leaves no other entity holding it, also when several sessions in
   ST_TEI_IDREQ hold the frame's reference value. *)
C33_NoSharedAssignedTei ==
    ~optNet
    => /\ \A i, k \in Assigned(Cur) :
            (i # k /\ layer2[i].tei \in 1 .. GROUP_TEI - 1)
            => layer2[i].tei # layer2[k].tei
       /\ \A data \in AssignFrames :
            FrameTei(data) \in 1 .. GROUP_TEI - 1
            => \A s \in mgr_send(Cur, "PH_DATA_IND", 0, data).S :
                 /\ Cardinality(Bound(s)) <= 1
                 /\ Holders(FrameTei(data)) # {} => Bound(s) = {}
                 /\ \A i \in Bound(s) :
                      /\ s.layer2[i].tei = FrameTei(data)
                      /\ \A k \in Sessions \ {i} : s.layer2[k].tei # FrameTei(data)
                 /\ (Requesters(data) # {} /\ Holders(FrameTei(data)) = {})
                    => \E i \in Requesters(data) :
                         /\ Bound(s) = {i}
                         /\ \A k \in Requesters(data) : i <= k

\* two sessions request with the same reference value; the frame that
\* names it binds the first and leaves the second requesting
C33_Witness ==
    /\ ~optNet
    /\ Len(layer2) = 2
    /\ Requesters(NetFrame(ID_ASSIGNED, 257, 70)) = {1, 2}
    /\ \E s \in mgr_send(Cur, "PH_DATA_IND", 0, NetFrame(ID_ASSIGNED, 257, 70)).S :
          /\ s.layer2[1].tei = 70
          /\ s.layer2[1].state = ST_TEI_NOP
          /\ s.layer2[2].tei = GROUP_TEI
          /\ s.layer2[2].state = ST_TEI_IDREQ

(* C34: on a terminal-side manager an entity that got its TEI T of 1..126
   from ID_ASSIGNED is the entity findtei returns for T; when its session
   is Idle and ID_ASSIGNED arrives with T and a reference value other than
   its tm->ri, every outcome of the one dispatch has that session in
   ST_TEI_IDVERIFY with nval 2 and the timer armed, and exactly one frame
   enqueued, ID_VERIFY with reference value 0 and T, however many Idle
   sessions ran the duplicate check; its ri and TEI are unchanged. *)
C34_DuplicateVerifiesOnce ==
    ~optNet
    => \A e \in Assigned(Cur) :
         layer2[e].tei \in 1 .. GROUP_TEI - 1
         => /\ findtei(Cur, layer2[e].tei) = e
            /\ \A ri \in RiVals :
                 (layer2[e].state = ST_TEI_NOP /\ ri # layer2[e].ri)
                 => \A s \in mgr_send(Cur, "PH_DATA_IND", 0,
                                      NetFrame(ID_ASSIGNED, ri, layer2[e].tei)).S :
                      /\ s.layer2[e].state = ST_TEI_IDVERIFY
                      /\ s.layer2[e].nval = 2
                      /\ s.layer2[e].timer
                      /\ s.layer2[e].ri = layer2[e].ri
                      /\ s.layer2[e].tei = layer2[e].tei
                      /\ Len(s.enq) = 1
                      /\ s.enq[1].data = TeiFrame(layer2[e].net, ID_VERIFY, 0, layer2[e].tei)
                      /\ s.enq[1].data[7] = ID_VERIFY
                      /\ FrameRi(s.enq[1].data) = 0
                      /\ FrameTei(s.enq[1].data) = layer2[e].tei
                      /\ \A k \in Sessions \ {e} : SameSession(s.layer2[k], layer2[k])

\* two Idle sessions run the duplicate check on a frame that names the TEI
\* of the second one: the first raises EV_VERIFY on it, then it raises
\* EV_VERIFY on itself
C34_Witness ==
    /\ ~optNet
    /\ Len(layer2) = 2
    /\ IdleReceivers = {1, 2}
    /\ layer2[2].tei = 70
    /\ layer2[2].ri = 257
    /\ \E s \in mgr_send(Cur, "PH_DATA_IND", 0, NetFrame(ID_ASSIGNED, 0, 70)).S :
          /\ s.layer2[2].state = ST_TEI_IDVERIFY
          /\ Len(s.enq) = 1

\* the fixed entities of a terminal-side manager
FixedTerminals == {f \in Sessions : layer2[f].fixed /\ ~layer2[f].net}

(* C35: a fixed entity of a terminal-side manager is not changed by any
   frame handed to its own session, whatever the type, nor by
   MDL_ERROR_IND; but when its session is Idle, its TEI is in 1..63 and
   findtei returns it, and an Idle session that takes inbound frames is
   registered, ID_ASSIGNED with that TEI and a reference value other than
   its tm->ri leaves it in ST_TEI_IDVERIFY with the timer armed and
   ID_VERIFY with its TEI enqueued. *)
C35_FixedVerifiedByOthers ==
    ~optNet
    => \A f \in FixedTerminals :
         /\ \A data \in GoodFrames :
              tei_ph_data_ind(Cur, f, data[7], SubSeq(data, 5, 8)) = {Cur}
         /\ l2_tei(Cur, f, "MDL_ERROR_IND") = {Cur}
         /\ IdleReceivers = {}
            => \A data \in GoodFrames :
                 \A s \in mgr_send(Cur, "PH_DATA_IND", 0, data).S :
                    s.layer2[f] = layer2[f]
         /\ \A ri \in RiVals :
              (/\ layer2[f].state = ST_TEI_NOP
               /\ layer2[f].tei \in 1 .. 63
               /\ findtei(Cur, layer2[f].tei) = f
               /\ ri # layer2[f].ri
               /\ IdleReceivers # {})
              => \A s \in mgr_send(Cur, "PH_DATA_IND", 0,
                                   NetFrame(ID_ASSIGNED, ri, layer2[f].tei)).S :
                   /\ s.layer2[f].state = ST_TEI_IDVERIFY
                   /\ s.layer2[f].timer
                   /\ s.layer2[f].nval = 2
                   /\ Len(s.enq) = 1
                   /\ s.enq[1].data = TeiFrame(FALSE, ID_VERIFY, 0, layer2[f].tei)

\* a fixed entity with TEI 5 and an Idle entity without a TEI are
\* registered; ID_ASSIGNED naming TEI 5 makes the fixed one verify
C35_Witness ==
    /\ ~optNet
    /\ \E f \in FixedTerminals : \E i \in IdleReceivers :
          /\ layer2[f].state = ST_TEI_NOP
          /\ layer2[f].tei = 5
          /\ layer2[i].tei = GROUP_TEI
          /\ \E s \in mgr_send(Cur, "PH_DATA_IND", 0, NetFrame(ID_ASSIGNED, 257, 5)).S :
                /\ s.layer2[f].state = ST_TEI_IDVERIFY
                /\ Len(s.enq) = 1
                /\ FrameTei(s.enq[1].data) = 5

----------------------------------------------------------------------------
(* The send queue followed over time: every frame put on mgr->sendq and
   every frame handed to mgr->ch.recv is logged by its id, in order. The
   manager has at most one entity; frames come from DL_UNITDATA_REQ and
   from put_tei_msg. probe.rel says whether ch.recv ever rejects. *)

\* frames put on the queue in one behaviour
MaxFrames == 4

Ids(q) == [k \in 1 .. Len(q) |-> q[k].id]

QueueInit ==
    /\ MgrInit
    /\ probe \in [kind : {"queue"}, rel : BOOLEAN, elog : {<<>>}, hlog : {<<>>}]

\* the outcomes ch.recv allows
Allowed(s) == probe.rel => \A k \in 1 .. Len(s.handed) : s.handed[k].ok

QCommit(s) ==
    /\ probe.kind = "queue"
    /\ Allowed(s)
    /\ s.nextid - 1 <= MaxFrames
    /\ layer2' = s.layer2
    /\ active' = s.active
    /\ notready' = s.notready
    /\ lastid' = s.lastid
    /\ sendq' = s.sendq
    /\ nextid' = s.nextid
    /\ inflight' = s.inflight
    /\ orphan' = s.orphan
    /\ probe' = [probe EXCEPT !.elog = @ \o Ids(s.enq), !.hlog = @ \o Ids(s.handed)]
    /\ UNCHANGED <<optNet, optUser>>

QUnitData ==
    \E payload \in Payloads :
        \E s \in mgr_send(Cur, "DL_UNITDATA_REQ", 0, payload).S : QCommit(s)

QConfirm ==
    \E id \in {MkId(n) : n \in 1 .. MaxFrames} \cup {0} :
        \E s \in mgr_send(Cur, "PH_DATA_CNF", id, <<>>).S : QCommit(s)

\* the confirm of the frame handed off last
QConfirmLast ==
    /\ notready
    /\ \E s \in mgr_send(Cur, "PH_DATA_CNF", lastid, <<>>).S : QCommit(s)

QActivate ==
    \E s \in mgr_send(Cur, "PH_ACTIVATE_IND", 0, <<>>).S : QCommit(s)

QDeactivate ==
    \E s \in mgr_send(Cur, "PH_DEACTIVATE_IND", 0, <<>>).S : QCommit(s)

\* the one entity: a dynamic one of the manager's side
QCreate ==
    /\ layer2 = <<>>
    /\ QCommit(mgr_ctrl(Cur, IF optNet THEN ISDN_P_LAPD_NT ELSE ISDN_P_LAPD_TE,
                        0, GROUP_TEI).s)

QAssignInd ==
    \E i \in 1 .. Len(layer2) :
        \E s \in l2_tei(Cur, i, "MDL_ASSIGN_IND") : QCommit(s)

QErrorInd ==
    \E i \in 1 .. Len(layer2) :
        \E s \in l2_tei(Cur, i, "MDL_ERROR_IND") : QCommit(s)

QTimer ==
    \E i \in 1 .. Len(layer2) :
        /\ layer2[i].timer
        /\ \E s \in FsmExpireTimer(Cur, i) : QCommit(s)

QueueNext ==
    \/ QUnitData
    \/ QConfirm
    \/ QConfirmLast
    \/ QActivate
    \/ QDeactivate
    \/ QCreate
    \/ QAssignInd
    \/ QErrorInd
    \/ QTimer

QueueSpec == QueueInit /\ [][QueueNext]_vars

\* every frame handed off is confirmed in the end and the link comes up
\* whenever it is down
QueueLiveSpec ==
    /\ QueueInit
    /\ [][QueueNext]_vars
    /\ WF_vars(QConfirmLast)
    /\ WF_vars(QActivate)

IsPrefix(p, q) == Len(p) <= Len(q) /\ SubSeq(q, 1, Len(p)) = p

(* C36: in every behaviour, whatever the order of DL_UNITDATA_REQ,
   put_tei_msg, confirms, rejected hand-offs, PH_DEACTIVATE_IND and
   PH_ACTIVATE_IND, the ids handed to ch.recv so far are the first ones of
   the ids put on the queue so far, in the same order; the frames not yet
   handed off are the queue, in order; and no id occurs twice, so no frame
   is handed off twice and none overtakes an earlier one. *)
C36_FifoHandOff ==
    probe.kind = "queue"
    => /\ IsPrefix(probe.hlog, probe.elog)
       /\ probe.elog = probe.hlog \o Ids(sendq)
       /\ \A j, k \in 1 .. Len(probe.elog) :
             j # k => probe.elog[j] # probe.elog[k]

\* ch.recv may reject; four frames were queued while the link was down or
\* a confirm was outstanding, three were handed off and one waits
C36_Witness ==
    /\ probe.kind = "queue"
    /\ ~probe.rel
    /\ Len(probe.elog) = 4
    /\ Len(probe.hlog) = 3
    /\ Len(sendq) = 1
    /\ notready

(* C37: when ch.recv never rejects, in every state between two operations
   the send queue is empty whenever MGR_PH_ACTIVE is set and
   MGR_PH_NOTREADY is clear; and when moreover the frame handed off last is
   always confirmed in the end and the link always comes up again, every
   frame put on the queue is handed to ch.recv in the end. *)
C37_ReliableQueueDrains ==
    /\ [](probe.rel => ((active /\ ~notready) => sendq = <<>>))
    /\ \A k \in 1 .. MaxFrames :
          (probe.rel /\ Len(probe.elog) >= k) ~> (Len(probe.hlog) >= k)

\* ch.recv never rejects; frames piled up behind an unconfirmed one while
\* the link was down, and all four have been handed off and confirmed
C37_Witness ==
    /\ probe.kind = "queue"
    /\ probe.rel
    /\ Len(probe.elog) = MaxFrames
    /\ probe.hlog = probe.elog
    /\ active /\ ~notready /\ sendq = <<>>

\* what an operation other than the matching confirm leaves behind while a
\* confirm is outstanding: nothing handed off, the flag and the id as they
\* were, the queued frames still queued in front of the new ones
StillWaiting(s) ==
    /\ s.handed = <<>>
    /\ s.notready
    /\ s.lastid = lastid
    /\ s.sendq = sendq \o s.enq

(* C38: PH_DEACTIVATE_IND clears MGR_PH_ACTIVE and changes nothing else,
   MGR_PH_NOTREADY and mgr->lastid included. While MGR_PH_NOTREADY is set,
   PH_ACTIVATE_IND, DL_UNITDATA_REQ, every request and timer that sends a
   TEI frame and every confirm with another id hand nothing to ch.recv and
   leave the flag, mgr->lastid and the queued frames in place, so without
   the matching confirm the queue never moves. The matching confirm on an
   inactive link clears MGR_PH_NOTREADY and mgr->lastid, hands nothing off
   and leaves the queue and MGR_PH_ACTIVE as they were. *)
C38_StalledUntilConfirm ==
    /\ mgr_send(Cur, "PH_DEACTIVATE_IND", 0, <<>>).S = {[Cur EXCEPT !.active = FALSE]}
    /\ notready
       => /\ \A s \in mgr_send(Cur, "PH_ACTIVATE_IND", 0, <<>>).S :
                StillWaiting(s) /\ s.active /\ s.enq = <<>>
          /\ \A payload \in Payloads :
                \A s \in mgr_send(Cur, "DL_UNITDATA_REQ", 0, payload).S :
                   StillWaiting(s) /\ (optNet => Len(s.enq) = 1)
          /\ \A i \in Sessions :
                /\ \A s \in l2_tei(Cur, i, "MDL_ASSIGN_IND")
                             \cup l2_tei(Cur, i, "MDL_ERROR_IND") : StillWaiting(s)
                /\ layer2[i].timer
                   => \A s \in FsmExpireTimer(Cur, i) : StillWaiting(s)
          /\ \A data \in InFrames :
                \A s \in mgr_send(Cur, "PH_DATA_IND", 0, data).S : StillWaiting(s)
          /\ \A id \in AckIds \ {lastid} :
                \A s \in mgr_send(Cur, "PH_DATA_CNF", id, <<>>).S :
                   StillWaiting(s) /\ s.enq = <<>> /\ s.active = active
          /\ ~active
             => \A s \in mgr_send(Cur, "PH_DATA_CNF", lastid, <<>>).S :
                  /\ ~s.notready
                  /\ s.lastid = MISDN_ID_NONE
                  /\ s.handed = <<>>
                  /\ s.sendq = sendq
                  /\ ~s.active
                  /\ s.layer2 = layer2

\* the link went down with a frame unconfirmed and two more queued; coming
\* up again hands nothing off, and so does the confirm while it is down
C38_Witness ==
    /\ notready
    /\ ~active
    /\ Len(sendq) = 2
    /\ lastid # MISDN_ID_NONE
    /\ \E s \in mgr_send(Cur, "PH_ACTIVATE_IND", 0, <<>>).S :
          s.active /\ s.handed = <<>> /\ Len(s.sendq) = 2
    /\ \E s \in mgr_send(Cur, "PH_DATA_CNF", lastid, <<>>).S :
          ~s.notready /\ s.handed = <<>> /\ Len(s.sendq) = 2

----------------------------------------------------------------------------
(* The network-side manager *)

\* TEI management frames of every type, from either side, with the
\* reference values and TEIs the handlers distinguish
AllFrames ==
    {TeiFrame(net, mt, ri, tei) :
        net \in BOOLEAN, mt \in ID_REQUEST .. ID_VERIFY, ri \in RiVals, tei \in TeiVals}

(* C39: on a network-side manager every inbound frame leaves every session,
   the registry, the send queue and the flow-control fields as they were
   and produces no frame and nothing for any entity: ID_REQUEST, ID_CHK_RES
   and ID_VERIFY are accepted with result 0, ID_REQUEST going to new_tei_req
   only; every other type and every malformed frame is refused. *)
C39_NetworkInboundNoEffect ==
    optNet
    => \A data \in AllFrames \cup BadFrames :
         LET r == mgr_send(Cur, "PH_DATA_IND", 0, data)
         IN  /\ r.S = {Cur}
             /\ r.ret = IF data \in AllFrames
                           /\ data[7] \in {ID_REQUEST, ID_CHK_RES, ID_VERIFY}
                        THEN "0" ELSE "EINVAL"

\* a network-side manager holds an Idle entity with a TEI and a verifying
\* one; ID_REQUEST and ID_VERIFY naming that TEI are accepted
C39_Witness ==
    /\ optNet
    /\ \E i, k \in Sessions :
          /\ layer2[i].state = ST_TEI_NOP /\ layer2[i].tei = 70
          /\ layer2[k].state = ST_TEI_IDVERIFY /\ layer2[k].timer
    /\ mgr_send(Cur, "PH_DATA_IND", 0, UserFrame(ID_REQUEST, 257, GROUP_TEI)).ret = "0"
    /\ mgr_send(Cur, "PH_DATA_IND", 0, UserFrame(ID_VERIFY, 0, 70))
         = [ret |-> "0", S |-> {Cur}]

====
